---------------------------- MODULE Spec2Model ----------------------------
(***************************************************************************)
(* A model of dicomatic: the findscu text parser (dicom_query.py), the     *)
(* patient-name resolvers and the three query modes of main()              *)
(* (query_and_download.py), and the download of one study with its         *)
(* metadata side-file (download_dicom.py).                                 *)
(*                                                                         *)
(* Python strings are sequences of one-character strings, so that the      *)
(* regular expressions, lower(), strip(), split() and int() of the source  *)
(* are computed character by character.  Python's None is the value None   *)
(* below, which no string equals.                                          *)
(***************************************************************************)
EXTENDS Integers, Sequences, FiniteSets, TLC

VARIABLES
    pc,               \* position of the running function
    lines,            \* parser: output.splitlines()
    tag_map,          \* parser: the tag dictionary, in dict order
    lineno,           \* parser: number of lines already scanned
    current,          \* parser: the accumulator
    studies,          \* parser: the result list / main: the study list
    dicom_patient_name, \* resolver: the argument of the two parse functions
    sub_label,        \* resolver: parse_subject_digits' result
    trailing,         \* resolver: parse_trailing_substring's result
    session_map,      \* config["session_map"], in dict order
    session_label,    \* resolver: find_session_label's result
    choice,           \* main: the query mode, "1", "2" or "3"
    selected_studies, \* main, modes 1 and 2: the studies to download
    all_studies,      \* main, mode 3: the parser's result
    subjects_dict,    \* main, mode 3: list_subject_folders(bids_root)
    subject_dict,     \* main, mode 3: subject -> session -> study
    user_line,        \* main, mode 3: the filter line the user typed
    session_map_input, \* main, mode 3 (C): the follow-up line of each subject
    handed,           \* the studies passed to run_dicom_download_command
    create_dicom_metadata,   \* config["create_dicom_metadata"]
    check_existing_archives, \* the flag main passes with each study
    position,         \* download loop: number of studies already processed
    outcomes,         \* download loop: what happened to each of them
    collected_metadata, \* download_dicom: _collected_metadata, in dict order
    metadata_file     \* download_dicom: the content of METADATA_FILE

parserVars == <<lines, tag_map, lineno, current>>

resolverVars == <<dicom_patient_name, sub_label, trailing, session_label>>

mainVars ==
    <<choice, selected_studies, all_studies, subjects_dict, subject_dict, user_line,
      session_map_input, handed>>

downloadVars ==
    <<create_dicom_metadata, check_existing_archives, position, outcomes,
      collected_metadata, metadata_file>>

vars == <<pc, parserVars, studies, resolverVars, session_map, mainVars, downloadVars>>

\* the variables of a function that is not running
ParserUnused == lines = <<>> /\ tag_map = <<>> /\ lineno = 0 /\ current = <<>>

ResolverUnused ==
    /\ dicom_patient_name = <<>>
    /\ sub_label = <<>>
    /\ trailing = <<>>
    /\ session_label = <<>>

MainUnused ==
    /\ choice = ""
    /\ selected_studies = <<>>
    /\ all_studies = <<>>
    /\ subjects_dict = <<>>
    /\ subject_dict = <<>>
    /\ user_line = <<>>
    /\ session_map_input = <<>>
    /\ handed = <<>>

DownloadUnused ==
    /\ create_dicom_metadata = FALSE
    /\ check_existing_archives = FALSE
    /\ position = 0
    /\ outcomes = <<>>
    /\ collected_metadata = <<>>
    /\ metadata_file = <<>>

----------------------------------------------------------------------------
(* Strings *)

None == <<"<None>">>

Truthy(v) == v # None /\ v # <<>>

Digits == {"0","1","2","3","4","5","6","7","8","9"}

HexDigits == Digits \cup {"A","B","C","D","E","F","a","b","c","d","e","f"}

Whitespace == {" ", "\t"}

LowerCase ==
    <<"a","b","c","d","e","f","g","h","i","j","k","l","m",
      "n","o","p","q","r","s","t","u","v","w","x","y","z">>

UpperCase ==
    <<"A","B","C","D","E","F","G","H","I","J","K","L","M",
      "N","O","P","Q","R","S","T","U","V","W","X","Y","Z">>

Letters == {LowerCase[i] : i \in 1..26} \cup {UpperCase[i] : i \in 1..26}

\* str.lower()
Lower(s) ==
    [i \in 1..Len(s) |->
        IF \E k \in 1..26 : UpperCase[k] = s[i]
        THEN LowerCase[CHOOSE k \in 1..26 : UpperCase[k] = s[i]]
        ELSE s[i]]

\* str.strip()
Strip(s) ==
    LET I == {i \in 1..Len(s) : s[i] \notin Whitespace}
    IN  IF I = {} THEN <<>>
        ELSE SubSeq(s, CHOOSE i \in I : \A j \in I : i <= j,
                       CHOOSE i \in I : \A j \in I : j <= i)

\* str.startswith(prefix)
StartsWith(s, prefix) ==
    Len(s) >= Len(prefix) /\ SubSeq(s, 1, Len(prefix)) = prefix

\* the least j >= i with j > Len(s) or s[j] \notin S
RECURSIVE SkipIn(_, _, _)
SkipIn(s, i, S) ==
    IF i <= Len(s) /\ s[i] \in S THEN SkipIn(s, i + 1, S) ELSE i

\* the least j >= i with j > Len(s) or s[j] \in S
RECURSIVE SkipNotIn(_, _, _)
SkipNotIn(s, i, S) ==
    IF i <= Len(s) /\ s[i] \notin S THEN SkipNotIn(s, i + 1, S) ELSE i

\* pat occurs in s starting at index i
OccursAt(s, pat, i) ==
    /\ i >= 1
    /\ i + Len(pat) - 1 <= Len(s)
    /\ SubSeq(s, i, i + Len(pat) - 1) = pat

\* Python: pat in s
Contains(s, pat) == \E i \in 1..(Len(s) + 1) : OccursAt(s, pat, i)

\* the greatest index of character c in s, 0 when there is none
LastIndexOf(s, c) ==
    LET I == {i \in 1..Len(s) : s[i] = c}
    IN  IF I = {} THEN 0 ELSE CHOOSE i \in I : \A j \in I : j <= i

\* all sequences over S of length at most n
SeqsUpTo(S, n) == UNION {[1..k -> S] : k \in 0..n}

----------------------------------------------------------------------------
(* dicom_query.py: parse_studies_with_demographics *)

NoMatch == [matched |-> FALSE]

\* re.search(r'^\(([\dA-Fa-f]{4},[\dA-Fa-f]{4})\)\s+(\S+)\s+\[(.*)\]', line)
AttrMatch(line) ==
    LET n == Len(line)
        tagOk == /\ n >= 11
                 /\ line[1] = "("
                 /\ \A i \in 2..5 : line[i] \in HexDigits
                 /\ line[6] = ","
                 /\ \A i \in 7..10 : line[i] \in HexDigits
                 /\ line[11] = ")"
        a == SkipIn(line, 12, Whitespace)        \* start of (\S+)
        b == SkipNotIn(line, a, Whitespace)      \* end of (\S+), exclusive
        c == SkipIn(line, b, Whitespace)         \* where \[ must stand
        r == LastIndexOf(line, "]")              \* .* is greedy
    IN  IF tagOk /\ a > 12 /\ b > a /\ c > b /\ c <= n /\ line[c] = "[" /\ r > c
        THEN [matched        |-> TRUE,
              group_elem_raw |-> SubSeq(line, 2, 10),
              vr             |-> SubSeq(line, a, b - 1),
              value          |-> SubSeq(line, c + 1, r - 1)]
        ELSE NoMatch

\* ReverseLookup keyed by the group/element alone
ReverseLookup_IgnoreVr(tm, ge, vr) ==
    LET I == {i \in 1..Len(tm) : tm[i].group_elem = ge}
    IN  IF I = {} THEN ""
        ELSE tm[CHOOSE i \in I : \A j \in I : j <= i].field

\* reverse_map[(ge, vr)], with "" for a pair that is not a key.  A later
\* entry of the dictionary overwrites an earlier one with the same pair.
ReverseLookup(tm, ge, vr) ==
    LET I == {i \in 1..Len(tm) : tm[i].group_elem = ge /\ tm[i].vr = vr}
    IN  IF I = {} THEN ""
        ELSE tm[CHOOSE i \in I : \A j \in I : j <= i].field

\* current = {}; for _, info in tag_map.items(): current[info["field"]] = None
EmptyAccumulator(tm) == [f \in {tm[i].field : i \in 1..Len(tm)} |-> None]

\* current.get(key)
DictGet(d, key) == IF key \in DOMAIN d THEN d[key] ELSE None

\* StoreAttribute keeping the first value of a field instead of the last
StoreAttribute_KeepFirst(cur, line, tm) ==
    LET m == AttrMatch(line) IN
    IF ~m.matched THEN cur
    ELSE LET group_elem == <<"(">> \o m.group_elem_raw \o <<")">>
             field_name == ReverseLookup(tm, group_elem, m.vr)
         IN  IF field_name = "" \/ cur[field_name] # None THEN cur
             ELSE [cur EXCEPT ![field_name] = m.value]

\* the accumulator after the attribute part of the loop body
StoreAttribute(cur, line, tm) ==
    LET m == AttrMatch(line) IN
    IF ~m.matched THEN cur
    ELSE LET group_elem == <<"(">> \o m.group_elem_raw \o <<")">>
             field_name == ReverseLookup(tm, group_elem, m.vr)
         IN  IF field_name = "" THEN cur
             ELSE [cur EXCEPT ![field_name] = m.value]

StatusPending == <<"s","t","a","t","u","s","=","f","f","0","0","H">>

StatusSuccess == <<"s","t","a","t","u","s","=","0","H">>

IsTerminator(line) == Contains(line, StatusPending) \/ Contains(line, StatusSuccess)

\* CloseItem without the test of study_uid
CloseItem_Unchecked(cur, st) == Append(st, cur)

\* the result list after a terminator
CloseItem(cur, st) ==
    IF Truthy(DictGet(cur, "study_uid")) THEN Append(st, cur) ELSE st

\* ResetAccumulator emptying the accumulator only when its item was appended
ResetAccumulator_OnlyIfAppended(cur, tm) ==
    IF Truthy(DictGet(cur, "study_uid")) THEN EmptyAccumulator(tm) ELSE cur

\* the accumulator after a terminator
ResetAccumulator(cur, tm) == EmptyAccumulator(tm)

\* AppendLeftover forgetting the accumulator that no terminator closed
AppendLeftover_Skipped(cur, st) == st

\* the result list after the loop
AppendLeftover(cur, st) ==
    IF Truthy(DictGet(cur, "study_uid")) THEN Append(st, cur) ELSE st

----------------------------------------------------------------------------
(* The parser's inputs *)

MaxLines == 3

UidTag == <<"(","0","0","2","0",",","0","0","0","D",")">>

UidTagLower == <<"(","0","0","2","0",",","0","0","0","d",")">>

NameTag == <<"(","0","0","1","0",",","0","0","1","0",")">>

DateTag == <<"(","0","0","0","8",",","0","0","2","0",")">>

AttrLine(tag, vr, value) == tag \o <<" ">> \o vr \o <<" ", "[">> \o value \o <<"]">>

CandLines ==
    { AttrLine(UidTag, <<"U","I">>, <<"1",".","2">>),
      AttrLine(UidTag, <<"U","I">>, <<>>),
      AttrLine(UidTag, <<"U","I">>, <<"9">>),
      AttrLine(UidTag, <<"U","I">>, StatusSuccess),
      AttrLine(UidTagLower, <<"U","I">>, <<"5">>),
      AttrLine(UidTag, <<"L","O">>, <<"7">>),
      AttrLine(UidTag, <<"L","O">>, StatusSuccess),
      AttrLine(NameTag, <<"P","N">>, <<"A">>),
      AttrLine(DateTag, <<"D","A">>, <<"2">>),
      UidTag \o <<" ","U","I"," ","8">>,
      <<"x"," ">> \o StatusPending,
      StatusSuccess }

UidEntry == [group_elem |-> UidTag, vr |-> <<"U","I">>, field |-> "study_uid"]

NameEntry == [group_elem |-> NameTag, vr |-> <<"P","N">>, field |-> "patient_name"]

DateEntry == [group_elem |-> DateTag, vr |-> <<"D","A">>, field |-> "study_date"]

TagMaps == { <<UidEntry, NameEntry>>, <<NameEntry, UidEntry, DateEntry>>, <<NameEntry>> }

InitParse ==
    /\ DownloadUnused
    /\ pc = "scan"
    /\ lines \in SeqsUpTo(CandLines, MaxLines)
    /\ tag_map \in TagMaps
    /\ lineno = 0
    /\ current = EmptyAccumulator(tag_map)
    /\ studies = <<>>
    /\ ResolverUnused
    /\ session_map = <<>>
    /\ MainUnused

\* the loop body with the terminator test before the attribute match
ScanLine_TerminatorFirst ==
    /\ pc = "scan"
    /\ lineno < Len(lines)
    /\ LET line == lines[lineno + 1]
       IN  /\ lineno' = lineno + 1
           /\ IF IsTerminator(line)
              THEN /\ studies' = CloseItem(current, studies)
                   /\ current' = StoreAttribute(ResetAccumulator(current, tag_map),
                                                line, tag_map)
              ELSE /\ studies' = studies
                   /\ current' = StoreAttribute(current, line, tag_map)
    /\ UNCHANGED <<downloadVars, pc, lines, tag_map, resolverVars, session_map, mainVars>>

\* one pass of the loop body: for line in lines
ScanLine ==
    /\ pc = "scan"
    /\ lineno < Len(lines)
    /\ LET line == lines[lineno + 1]
           stored == StoreAttribute(current, line, tag_map)
       IN  /\ lineno' = lineno + 1
           /\ IF IsTerminator(line)
              THEN /\ studies' = CloseItem(stored, studies)
                   /\ current' = ResetAccumulator(stored, tag_map)
              ELSE /\ studies' = studies
                   /\ current' = stored
    /\ UNCHANGED <<downloadVars, pc, lines, tag_map, resolverVars, session_map, mainVars>>

\* after the loop: the leftover accumulator, then return studies
FinishParse ==
    /\ pc = "scan"
    /\ lineno = Len(lines)
    /\ studies' = AppendLeftover(current, studies)
    /\ pc' = "parsed"
    /\ UNCHANGED <<downloadVars, parserVars, resolverVars, session_map, mainVars>>

NextParse == ScanLine \/ FinishParse

SpecParse == InitParse /\ [][NextParse]_vars


----------------------------------------------------------------------------
(* The parser's result, read off the text *)

\* the dataset items of the text: <<lo, hi>> with line hi a terminator, or
\* the last line of the text for the item that no terminator closes
RECURSIVE Segments(_, _)
Segments(lo, i) ==
    IF i > Len(lines)
    THEN IF lo <= Len(lines) THEN << <<lo, Len(lines)>> >> ELSE <<>>
    ELSE IF IsTerminator(lines[i])
         THEN << <<lo, i>> >> \o Segments(i + 1, i + 1)
         ELSE Segments(lo, i + 1)

\* line k is an attribute line whose tag pair the dictionary maps to field f
IsAttrFor(k, f) ==
    LET m == AttrMatch(lines[k]) IN
    /\ m.matched
    /\ \E e \in 1..Len(tag_map) :
          /\ tag_map[e].group_elem = <<"(">> \o m.group_elem_raw \o <<")">>
          /\ tag_map[e].vr = m.vr
          /\ tag_map[e].field = f
          /\ \A e2 \in (e + 1)..Len(tag_map) :
                ~(tag_map[e2].group_elem = tag_map[e].group_elem
                  /\ tag_map[e2].vr = tag_map[e].vr)

Occurrences(f, seg) == {k \in seg[1]..seg[2] : IsAttrFor(k, f)}

\* the value of the last occurrence of field f in an item, None without one
LastValue(f, seg) ==
    LET K == Occurrences(f, seg) IN
    IF K = {} THEN None
    ELSE AttrMatch(lines[CHOOSE k \in K : \A j \in K : j <= k]).value

EmitsRecord(seg) == Truthy(LastValue("study_uid", seg))

Terminators == {i \in 1..Len(lines) : IsTerminator(lines[i])}

\* the item that terminator line i closes
ItemClosedBy(i) ==
    LET P == {j \in Terminators : j < i}
    IN  <<IF P = {} THEN 1 ELSE (CHOOSE j \in P : \A q \in P : q <= j) + 1, i>>

\* the lines after the last terminator
Leftover ==
    <<IF Terminators = {} THEN 1
      ELSE (CHOOSE j \in Terminators : \A q \in Terminators : q <= j) + 1,
      Len(lines)>>

\* C1: the parser returns as many records as there are terminator lines
\* reached with a non-empty study_uid, plus one when the never-terminated
\* accumulator left after the last line has a non-empty study_uid.
C1_RecordCount ==
    pc = "parsed" =>
        Len(studies) =
            Cardinality({i \in Terminators : EmitsRecord(ItemClosedBy(i))})
            + (IF EmitsRecord(Leftover) THEN 1 ELSE 0)

\* a text whose first item is closed with a study_uid and whose last lines,
\* closed by no terminator, carry a study_uid too
C1_Witness ==
    /\ pc = "parsed"
    /\ Len(studies) = 2
    /\ Cardinality(Terminators) = 1
    /\ EmitsRecord(Leftover)

\* the text holds exactly two items, both closed by a terminator, the first
\* with a study_uid value and the second without one
TwoItemsSecondWithoutUid ==
    LET segs == Segments(1, 1) IN
    /\ Len(segs) = 2
    /\ IsTerminator(lines[Len(lines)])
    /\ EmitsRecord(segs[1])
    /\ ~EmitsRecord(segs[2])

\* C2: every record of the result has a non-empty study_uid, and a text of
\* two terminated items whose second has no study_uid value yields exactly
\* one record, the first item's.
C2_NonEmptyUid ==
    /\ \A i \in 1..Len(studies) :
          /\ "study_uid" \in DOMAIN studies[i]
          /\ studies[i]["study_uid"] # None
          /\ studies[i]["study_uid"] # <<>>
    /\ (pc = "parsed" /\ TwoItemsSecondWithoutUid) =>
          /\ Len(studies) = 1
          /\ studies[1]["study_uid"] = LastValue("study_uid", Segments(1, 1)[1])

C2_Witness ==
    /\ pc = "parsed"
    /\ TwoItemsSecondWithoutUid
    /\ Len(studies) = 1

\* C3: a field whose tag pair occurs more than once in an item has, in the
\* record that item yields, the value of the last occurrence.
C3_LastOccurrenceWins ==
    pc = "parsed" =>
        LET emitted == SelectSeq(Segments(1, 1), EmitsRecord) IN
        /\ Len(emitted) = Len(studies)
        /\ \A r \in 1..Len(emitted) :
              \A f \in DOMAIN studies[r] :
                 Occurrences(f, emitted[r]) # {} =>
                    studies[r][f] = LastValue(f, emitted[r])

\* an item with two occurrences of study_uid carrying different values
C3_Witness ==
    /\ pc = "parsed"
    /\ Len(studies) >= 1
    /\ LET seg == SelectSeq(Segments(1, 1), EmitsRecord)[1]
           K   == Occurrences("study_uid", seg)
       IN  \E k1, k2 \in K :
              /\ k1 < k2
              /\ AttrMatch(lines[k1]).value # AttrMatch(lines[k2]).value
              /\ studies[1]["study_uid"] = AttrMatch(lines[k2]).value


----------------------------------------------------------------------------
(* query_and_download.py: parse_subject_digits, parse_trailing_substring, *)
(* find_session_label                                                      *)

\* \d{4}_\d{2}_\d{2}_ at the start of s
DateStampAt(s) ==
    /\ Len(s) >= 11
    /\ \A i \in {1, 2, 3, 4, 6, 7, 9, 10} : s[i] \in Digits
    /\ \A i \in {5, 8, 11} : s[i] = "_"

\* (?:[A-Za-z]*-?)?(\d+)(?:_(.*))?$ from index i of s.  Each greedy run is
\* the only one that can succeed: a shorter run of letters or digits is
\* followed by a letter or a digit, which nothing after it accepts.
RestMatch(s, i) ==
    LET a == SkipIn(s, i, Letters)
        h == IF a <= Len(s) /\ s[a] = "-" THEN a + 1 ELSE a
        d == SkipIn(s, h, Digits)
    IN  IF d > h /\ (d > Len(s) \/ s[d] = "_")
        THEN [matched  |-> TRUE,
              digits   |-> SubSeq(s, h, d - 1),
              trailing |-> IF d > Len(s) THEN None ELSE SubSeq(s, d + 1, Len(s))]
        ELSE NoMatch

\* re.match(r'^(?:\d{4}_\d{2}_\d{2}_)?(?:[A-Za-z]*-?)?(\d+)(?:_(.*))?$', s):
\* the optional date stamp is tried first and given up when the rest fails
PatientNameMatch(s) ==
    IF DateStampAt(s) /\ RestMatch(s, 12).matched
    THEN RestMatch(s, 12)
    ELSE RestMatch(s, 1)

SubPrefix == <<"s","u","b","-">>

SesPrefix == <<"s","e","s","-">>

\* parse_subject_digits without the optional date stamp in its pattern
parse_subject_digits_NoDate(name) ==
    LET m == RestMatch(name, 1) IN
    IF ~m.matched THEN None
    ELSE IF m.digits = <<>> THEN None
    ELSE SubPrefix \o m.digits

parse_subject_digits(name) ==
    LET m == PatientNameMatch(name) IN
    IF ~m.matched THEN None
    ELSE IF m.digits = <<>> THEN None
    ELSE SubPrefix \o m.digits

parse_trailing_substring(name) ==
    LET m == PatientNameMatch(name) IN
    IF ~m.matched THEN None ELSE m.trailing

\* session_map.get(key), the map being a sequence of [key, value] entries
\* with distinct keys
MapGet(sm, key) ==
    IF \E e \in 1..Len(sm) : sm[e].key = key
    THEN sm[CHOOSE e \in 1..Len(sm) : sm[e].key = key].value
    ELSE None

\* find_session_label putting "ses-" before every mapped value
find_session_label_AlwaysPrefixed(sub, trail, sm) ==
    IF ~Truthy(sub) \/ ~Truthy(trail) \/ sm = <<>> THEN None
    ELSE LET mapped_val == MapGet(sm, Strip(Lower(trail)))
         IN  IF Truthy(mapped_val) THEN SesPrefix \o mapped_val ELSE None

\* an absent (None) and an empty session_map are both the empty sequence:
\* the function only tests its truth value
find_session_label(sub, trail, sm) ==
    IF ~Truthy(sub) \/ ~Truthy(trail) THEN None
    ELSE IF sm # <<>>
         THEN LET key == Strip(Lower(trail))
                  mapped_val == MapGet(sm, key)
              IN  IF Truthy(mapped_val)
                  THEN IF ~StartsWith(mapped_val, SesPrefix)
                       THEN SesPrefix \o mapped_val
                       ELSE mapped_val
                  ELSE None
         ELSE None

----------------------------------------------------------------------------
(* The resolvers' inputs *)

MaxNameLen == 4

NameAlphabet == {"a", "B", "0", "7", "_", "-", " "}

DateStamp == <<"2","0","2","3","_","0","8","_","2","2","_">>

\* not a date stamp: the month has one digit
NearDateStamp == <<"2","0","2","3","_","8","_","2","2","_">>

Baseline == <<"b","a","s","e","l","i","n","e">>

ExampleNames ==
    { DateStamp \o <<"0","0","1","_">> \o Baseline,
      DateStamp \o Baseline,
      Baseline }

CandNames ==
    {pre \o body : pre \in {<<>>, DateStamp, NearDateStamp},
                   body \in SeqsUpTo(NameAlphabet, MaxNameLen)}
    \cup ExampleNames

Entry(k, v) == [key |-> k, value |-> v]

ResolverSessionMaps ==
    { <<>>,
      <<Entry(<<"b">>, <<"0","1">>), Entry(<<"a","b">>, <<"s","e","s","-","0","2">>),
        Entry(<<"a">>, <<>>), Entry(Baseline, <<"0","1">>)>>,
      <<Entry(<<"B">>, <<"0","3">>), Entry(<<"a"," ">>, <<"0","4">>),
        Entry(<<"b">>, <<"S","E","S","-","5">>), Entry(<<"7">>, SesPrefix),
        Entry(<<"a">>, SesPrefix \o SesPrefix \o <<"1">>)>> }

SubUnknown == <<"s","u","b","-","u","n","k","n","o","w","n">>

InitResolve ==
    /\ DownloadUnused
    /\ pc = "named"
    /\ dicom_patient_name \in CandNames
    /\ sub_label = <<>>
    /\ trailing = <<>>
    /\ session_label = <<>>
    /\ session_map \in ResolverSessionMaps
    /\ MainUnused
    /\ ParserUnused
    /\ studies = <<>>

\* sub_label = parse_subject_digits(sname);
\* trailing = parse_trailing_substring(s["patient_name"])
Resolve ==
    /\ pc = "named"
    /\ sub_label' = parse_subject_digits(dicom_patient_name)
    /\ trailing' = parse_trailing_substring(dicom_patient_name)
    /\ pc' = "resolved"
    /\ UNCHANGED <<downloadVars, parserVars, studies, dicom_patient_name, session_label, session_map, mainVars>>

\* maybe_ses = find_session_label(sub, trailing, session_map=session_map),
\* sub being parse_subject_digits(sname) or "sub-unknown"
FindSession ==
    /\ pc = "resolved"
    /\ session_label' =
          find_session_label(IF Truthy(sub_label) THEN sub_label ELSE SubUnknown,
                             trailing, session_map)
    /\ pc' = "labelled"
    /\ UNCHANGED <<downloadVars, parserVars, studies, dicom_patient_name, sub_label, trailing, session_map, mainVars>>

NextResolve == Resolve \/ FindSession

SpecResolve == InitResolve /\ [][NextResolve]_vars


----------------------------------------------------------------------------
(* The patient-name pattern, read off the name *)

\* the ways to read s as [YYYY_MM_DD_][letters][-]digits[_trailing]:
\* <<p, j, k>> with p the length of the date stamp (0 without one), the
\* digits at j+1..k and, when k is not the end, an underscore at k+1
Readings(s) ==
    {r \in {0, 11} \X (0..Len(s)) \X (1..Len(s)) :
        LET p == r[1]
            j == r[2]
            k == r[3]
        IN  /\ p <= j /\ j < k
            /\ p = 11 =>
                  /\ \A x \in {1, 2, 3, 4, 6, 7, 9, 10} : s[x] \in Digits
                  /\ s[5] = "_" /\ s[8] = "_" /\ s[11] = "_"
            /\ \A x \in (j + 1)..k : s[x] \in Digits
            /\ k = Len(s) \/ s[k + 1] = "_"
            /\ \/ \A x \in (p + 1)..j : s[x] \in Letters
               \/ /\ j > p
                  /\ s[j] = "-"
                  /\ \A x \in (p + 1)..(j - 1) : s[x] \in Letters}

\* a leading date stamp is read as one whenever a subject number follows it
PreferredReadings(s) ==
    {r \in Readings(s) : \A q \in Readings(s) : q[1] <= r[1]}

ExampleName == DateStamp \o <<"0","0","1","_">> \o Baseline

\* C4: for a name of the form [YYYY_MM_DD_][letters][-]digits[_trailing],
\* parse_subject_digits returns "sub-" followed by the digits as written and
\* parse_trailing_substring the text after the underscore that follows the
\* digits, absent without one; a name with no digit gives absent for both.
\* "2023_08_22_001_baseline" gives "sub-001" and "baseline", "baseline"
\* gives absent.
C4_ResolveName ==
    pc = "resolved" =>
        LET s == dicom_patient_name IN
        /\ \A r \in PreferredReadings(s) :
              /\ sub_label = SubPrefix \o SubSeq(s, r[2] + 1, r[3])
              /\ trailing = IF r[3] = Len(s) THEN None
                            ELSE SubSeq(s, r[3] + 2, Len(s))
        /\ (\A x \in 1..Len(s) : s[x] \notin Digits) =>
              sub_label = None /\ trailing = None
        /\ s = ExampleName =>
              /\ sub_label = <<"s","u","b","-","0","0","1">>
              /\ trailing = Baseline
        /\ s = Baseline => sub_label = None /\ trailing = None

C4_Witness ==
    /\ pc = "resolved"
    /\ dicom_patient_name = ExampleName
    /\ sub_label = <<"s","u","b","-","0","0","1">>
    /\ trailing = Baseline

\* a second case of C4: a prefix of letters and a hyphen, no trailing text
C4_WitnessPrefix ==
    /\ pc = "resolved"
    /\ dicom_patient_name = <<"a","B","-","0","7">>
    /\ sub_label = <<"s","u","b","-","0","7">>
    /\ trailing = None

\* the label a mapped value stands for
AsSessionLabel(v) == IF StartsWith(v, SesPrefix) THEN v ELSE SesPrefix \o v

\* C6: whenever the session map holds a key that equals the trailing
\* descriptor once letter case and surrounding whitespace are ignored,
\* find_session_label returns that key's mapped value as the session label.
C6_CaseInsensitiveLookup ==
    pc = "labelled" =>
        \A e \in 1..Len(session_map) :
            ( /\ trailing # None
              /\ session_map[e].value # <<>>
              /\ Strip(Lower(session_map[e].key)) = Strip(Lower(trailing)) )
            => session_label = AsSessionLabel(session_map[e].value)

----------------------------------------------------------------------------
(* query_and_download.py: main, modes 1 and 2 *)

DigitSeq == <<"0","1","2","3","4","5","6","7","8","9">>

DigitValue(c) == (CHOOSE k \in 1..10 : DigitSeq[k] = c) - 1

\* one character, U+00B2: str.isdigit() is true of it and int() rejects it
SuperscriptTwo == "SUPERSCRIPT TWO"

\* str.isdigit()
IsDigitString(d) ==
    d # <<>> /\ \A i \in 1..Len(d) : d[i] \in Digits \cup {SuperscriptTwo}

\* the number written by at most nine digits
RECURSIVE ExactInt(_)
ExactInt(d) ==
    IF d = <<>> THEN 0
    ELSE ExactInt(SubSeq(d, 1, Len(d) - 1)) * 10 + DigitValue(d[Len(d)])

\* Python integers have no upper limit: every value of ten digits or more is
\* kept as IntCap, which is above every index, key and sentinel compared
\* with it and keeps the order of the values (not strictly)
IntCap == 1000000000

\* int(d) of a string of digits
ToInt(d) ==
    LET significant == SubSeq(d, SkipIn(d, 1, {"0"}), Len(d))
    IN  IF Len(significant) > 9 THEN IntCap ELSE ExactInt(significant)

\* str(n), n >= 0
RECURSIVE Dec(_)
Dec(n) == IF n < 10 THEN <<DigitSeq[n + 1]>>
          ELSE Dec(n \div 10) \o <<DigitSeq[(n % 10) + 1]>>

\* f"{n:02d}", n >= 0
Format02(n) == IF n < 10 THEN <<"0">> \o Dec(n) ELSE Dec(n)

\* int(d) raises ValueError in date_to_int
date_to_int_raises(d) ==
    Truthy(d) /\ IsDigitString(d) /\ \E i \in 1..Len(d) : d[i] \notin Digits

\* the value date_to_int returns, when it returns
date_to_int(d) == IF Truthy(d) /\ IsDigitString(d) THEN ToInt(d) ELSE 0

\* list.sort(key=...) on [key, item] pairs: x goes after every element
\* whose key is not greater (the sort is stable)
RECURSIVE InsertByKey(_, _)
InsertByKey(sorted, x) ==
    IF sorted = <<>> THEN <<x>>
    ELSE IF x.key < sorted[Len(sorted)].key
         THEN Append(InsertByKey(SubSeq(sorted, 1, Len(sorted) - 1), x),
                     sorted[Len(sorted)])
         ELSE Append(sorted, x)

RECURSIVE SortByKey(_)
SortByKey(items) ==
    IF items = <<>> THEN <<>>
    ELSE InsertByKey(SortByKey(SubSeq(items, 1, Len(items) - 1)), items[Len(items)])

\* studies.sort(key=lambda st: date_to_int(st["study_date"]))
SortStudiesByDate(list) ==
    LET sorted == SortByKey([i \in 1..Len(list) |->
                      [key |-> date_to_int(list[i].study_date), item |-> list[i]]])
    IN  [i \in 1..Len(list) |-> sorted[i].item]

\* parse_subject_digits(sname) or "sub-unknown"
SubjectOrUnknown(st) ==
    IF Truthy(parse_subject_digits(st.patient_name))
    THEN parse_subject_digits(st.patient_name)
    ELSE SubUnknown

\* the keys of grouped, in the order the loop inserts them
RECURSIVE GroupKeys(_, _)
GroupKeys(list, n) ==
    IF n = 0 THEN <<>>
    ELSE LET before == GroupKeys(list, n - 1)
             k == SubjectOrUnknown(list[n])
         IN  IF \E i \in 1..Len(before) : before[i] = k THEN before
             ELSE Append(before, k)

\* grouped[sub], as the indices of its studies in list order
GroupMembers(list, sub) ==
    LET all == [i \in 1..Len(list) |-> i]
        IsMember(i) == SubjectOrUnknown(list[i]) = sub
    IN  SelectSeq(all, IsMember)

\* stlist.sort(key=lambda x: date_to_int(x["study_date"])), on indices
SortMembersByDate(list, members) ==
    LET sorted == SortByKey([m \in 1..Len(members) |->
                      [key |-> date_to_int(list[members[m]].study_date),
                       item |-> members[m]]])
    IN  [m \in 1..Len(members) |-> sorted[m].item]

\* ses_counter counting every study, mapped or not
NextCounter_Always(ses_counter, maybe_ses) == ses_counter + 1

\* ses_counter after one study of the group
NextCounter(ses_counter, maybe_ses) ==
    IF maybe_ses = None THEN ses_counter + 1 ELSE ses_counter

\* s["ses_label"] for one study of the group
SessionFor(sub, st, ses_counter, sm) ==
    LET maybe_ses == find_session_label(sub, parse_trailing_substring(st.patient_name), sm)
    IN  IF maybe_ses = None THEN SesPrefix \o Format02(ses_counter) ELSE maybe_ses

\* for s in stlist, from position pos of the sorted group on
RECURSIVE AssignGroup(_, _, _, _, _, _)
AssignGroup(list, sub, order, pos, ses_counter, sm) ==
    IF pos > Len(order) THEN list
    ELSE LET i == order[pos]
             maybe_ses == find_session_label(
                              sub, parse_trailing_substring(list[i].patient_name), sm)
             labelled == [ses_label |-> SessionFor(sub, list[i], ses_counter, sm)]
                         @@ list[i]
         IN  AssignGroup([list EXCEPT ![i] = labelled], sub, order, pos + 1,
                         NextCounter(ses_counter, maybe_ses), sm)

\* for sub, stlist in grouped.items(), from group g on
RECURSIVE AssignAllGroups(_, _, _, _)
AssignAllGroups(list, keys, g, sm) ==
    IF g > Len(keys) THEN list
    ELSE AssignAllGroups(
             AssignGroup(list, keys[g],
                         SortMembersByDate(list, GroupMembers(list, keys[g])),
                         1, 1, sm),
             keys, g + 1, sm)

\* group_studies_by_subject, then the session loop
GroupAndAssign(list, sm) ==
    LET withSub == [i \in 1..Len(list) |->
                       list[i] @@ [sub_label |-> SubjectOrUnknown(list[i])]]
    IN  AssignAllGroups(withSub, GroupKeys(list, Len(list)), 1, sm)

InList(list, x) == \E i \in 1..Len(list) : list[i] = x

\* str.split()
RECURSIVE Split(_)
Split(s) ==
    LET i == SkipIn(s, 1, Whitespace)
        j == SkipNotIn(s, i, Whitespace)
    IN  IF i > Len(s) THEN <<>>
        ELSE <<SubSeq(s, i, j - 1)>> \o Split(SubSeq(s, j, Len(s)))

\* int(s): [ok |-> FALSE] stands for ValueError.  Surrounding whitespace, a
\* sign and single underscores between digits are accepted.
PyInt(s) ==
    LET t == Strip(s)
        signed == t # <<>> /\ t[1] \in {"+", "-"}
        body == IF signed THEN SubSeq(t, 2, Len(t)) ELSE t
        IsDigitAt(i) == body[i] \in Digits
        all == [i \in 1..Len(body) |-> i]
        digitsOnly == [k \in 1..Len(SelectSeq(all, IsDigitAt)) |->
                          body[SelectSeq(all, IsDigitAt)[k]]]
        ok == /\ body # <<>>
              /\ \A i \in 1..Len(body) : body[i] \in Digits \cup {"_"}
              /\ body[1] \in Digits
              /\ body[Len(body)] \in Digits
              /\ \A i \in 1..(Len(body) - 1) : ~(body[i] = "_" /\ body[i + 1] = "_")
    IN  IF ok
        THEN [ok |-> TRUE,
              value |-> IF signed /\ t[1] = "-" THEN 0 - ToInt(digitsOnly)
                        ELSE ToInt(digitsOnly)]
        ELSE [ok |-> FALSE]

RECURSIVE Flatten(_)
Flatten(seqs) ==
    IF seqs = <<>> THEN <<>>
    ELSE seqs[1] \o Flatten(SubSeq(seqs, 2, Len(seqs)))

Words(ws) == Flatten([i \in 1..Len(ws) |-> IF i = 1 THEN ws[i] ELSE <<" ">> \o ws[i]])

\* the indices that one token adds to matched_indices: an integer is taken
\* as an index and nothing else, then the patient names are tried, then the
\* identifiers (uid_map keeps the last index of an identifier)
MatchToken(list, token) ==
    LET num == PyInt(token)
        named == {i \in 1..Len(list) : list[i].patient_name = token}
        withUid == {i \in 1..Len(list) : list[i].study_uid = token}
    IN  IF num.ok
        THEN IF 1 <= num.value /\ num.value <= Len(list) THEN {num.value} ELSE {}
        ELSE IF named # {} THEN named
        ELSE IF withUid # {}
             THEN {CHOOSE i \in withUid : \A j \in withUid : j <= i}
             ELSE {}

\* matched_indices after the loop over the tokens
MatchedIndices(list, tokens) ==
    UNION {MatchToken(list, tokens[k]) : k \in 1..Len(tokens)}

\* [index_map[i] for i in sorted(matched_indices)]
SelectedByIndex(list, matched_indices) ==
    LET all == [i \in 1..Len(list) |-> i]
        IsMatched(i) == i \in matched_indices
        picked == SelectSeq(all, IsMatched)
    IN  [k \in 1..Len(picked) |-> list[picked[k]]]

----------------------------------------------------------------------------
(* Modes 1 and 2: inputs and steps *)

MaxStudies == 3

Date1 == <<"2","0","2","3","0","1","0","1">>

Date2 == <<"2","0","2","3","0","1","0","2">>

\* a patient name made of a date stamp and a subject number
DatedName == DateStamp \o <<"0","0","1">>

\* <<patient_name, study_date>> as the parser may return them
SessionStudyChoices ==
    { <<<<"1","_","b">>, Date2>>,
      <<<<"1","_","x">>, Date1>>,
      <<<<"1">>, <<>>>>,
      <<<<"1","_">>, <<"2","0","2","3","x">>>>,
      <<<<"2","_","B"," ">>, Date1>>,
      <<<<"x">>, None>>,
      <<DatedName, Date1>>,
      <<<<"1","_","b">>, Date1 \o <<SuperscriptTwo>>>>,
      <<None, Date2>> }

\* twelve studies of one subject, the second and the fifth with a mapped
\* descriptor: the sequential labels pass ses-09
ManyStudies ==
    [i \in 1..12 |-> IF i \in {2, 5} THEN <<<<"1","_","b">>, Date1>>
                     ELSE <<<<"1","_","x">>, Date1>>]

\* the records of a query result; study_uid is never empty
AsStudies(l) ==
    [i \in 1..Len(l) |-> [patient_name |-> l[i][1],
                          study_date   |-> l[i][2],
                          study_uid    |-> <<"1", ".">> \o Dec(i)]]

SessionMaps == { <<>>, <<Entry(<<"b">>, <<"0","1">>)>> }

\* what the user may type at the prompt of mode 1
Mode1Lines ==
    { <<>>,
      <<"1">>,
      <<"2", " ", "1">>,
      <<"3", " ", "1", " ", "1">>,
      <<"+", "1">>,
      <<"0">>,
      <<"1", "_", "b">>,
      <<"x">>,
      <<"1", ".", "2">>,
      <<"z", "z", "z">>,
      Words(<<<<"z","z","z">>, <<"1","_","b">>, <<"1",".","1">>, <<"9">>>>),
      DatedName }

InitSession ==
    /\ DownloadUnused
    /\ pc = "queried"
    /\ choice \in {"1", "2"}
    /\ studies \in {AsStudies(l) :
                       l \in (SeqsUpTo(SessionStudyChoices, MaxStudies) \ {<<>>})
                             \cup {ManyStudies}}
    /\ session_map \in SessionMaps
    /\ selected_studies = <<>>
    /\ all_studies = <<>>
    /\ subjects_dict = <<>>
    /\ subject_dict = <<>>
    /\ user_line = <<>>
    /\ session_map_input = <<>>
    /\ handed = <<>>
    /\ ParserUnused
    /\ ResolverUnused

\* studies.sort(key=lambda st: date_to_int(st["study_date"])), then the list
\* is printed
SortStudies ==
    /\ pc = "queried"
    /\ IF \E i \in 1..Len(studies) : date_to_int_raises(studies[i].study_date)
       THEN /\ pc' = "crashed"
            /\ studies' = studies
       ELSE /\ pc' = "listed"
            /\ studies' = SortStudiesByDate(studies)
    /\ UNCHANGED <<downloadVars, parserVars, resolverVars, session_map, mainVars>>

\* mode 1: the line of tokens, matched_indices and selected_studies; main
\* returns when the line is empty or nothing matched
Mode1Select ==
    /\ pc = "listed"
    /\ choice = "1"
    /\ \E raw \in Mode1Lines :
          LET matched_indices == MatchedIndices(studies, Split(Strip(raw)))
          IN  /\ user_line' = Strip(raw)
              /\ IF Strip(raw) = <<>> \/ matched_indices = {}
                 THEN /\ pc' = "exit"
                      /\ selected_studies' = selected_studies
                 ELSE /\ pc' = "selected"
                      /\ selected_studies' = SelectedByIndex(studies, matched_indices)
    /\ UNCHANGED <<downloadVars, parserVars, studies, resolverVars, session_map, choice,
                   all_studies, subjects_dict, subject_dict,
                   session_map_input, handed>>

\* mode 2: every study of the list is downloaded
Mode2TakeAll ==
    /\ pc = "listed"
    /\ choice = "2"
    /\ selected_studies' = studies
    /\ pc' = "selected"
    /\ UNCHANGED <<downloadVars, parserVars, studies, resolverVars, session_map, choice,
                   all_studies, subjects_dict, subject_dict, user_line,
                   session_map_input, handed>>

\* grouped = group_studies_by_subject(...); the session loop.  re.match
\* raises TypeError on a patient_name that is None.
AssignSessions ==
    /\ pc = "selected"
    /\ IF \E i \in 1..Len(selected_studies) : selected_studies[i].patient_name = None
       THEN /\ pc' = "crashed"
            /\ selected_studies' = selected_studies
       ELSE /\ pc' = "assigned"
            /\ selected_studies' = GroupAndAssign(selected_studies, session_map)
    /\ UNCHANGED <<downloadVars, parserVars, studies, resolverVars, session_map, choice,
                   all_studies, subjects_dict, subject_dict, user_line,
                   session_map_input, handed>>

\* for s in selected_studies: run_dicom_download_command(s, ...)
DownloadSelected ==
    /\ pc = "assigned"
    /\ handed' = selected_studies
    /\ pc' = "done"
    /\ UNCHANGED <<downloadVars, parserVars, studies, resolverVars, session_map, choice,
                   selected_studies, all_studies, subjects_dict, subject_dict,
                   user_line, session_map_input>>

NextSession ==
    SortStudies \/ Mode1Select \/ Mode2TakeAll \/ AssignSessions \/ DownloadSelected

SpecSession == InitSession /\ [][NextSession]_vars

----------------------------------------------------------------------------
(* Session labels of modes 1 and 2, read off the selected studies *)

\* the study takes its label from the session map
GetsMapLabel(st) ==
    find_session_label(st.sub_label, parse_trailing_substring(st.patient_name),
                       session_map) # None

\* study j comes before study i in ascending date order, studies of equal
\* date keeping their order in the list
DateBefore(j, i) ==
    LET dj == date_to_int(selected_studies[j].study_date)
        di == date_to_int(selected_studies[i].study_date)
    IN  dj < di \/ (dj = di /\ j < i)

\* k in two digits, for k < 100
TwoDigits(k) == <<DigitSeq[(k \div 10) + 1], DigitSeq[(k % 10) + 1]>>

\* the studies of i's subject group without a map label that come before i
UnmappedBefore(i) ==
    {j \in 1..Len(selected_studies) :
        /\ selected_studies[j].sub_label = selected_studies[i].sub_label
        /\ ~GetsMapLabel(selected_studies[j])
        /\ DateBefore(j, i)}

\* C5: in a subject group taken in ascending date order, the k-th study
\* without a session-map label is labelled "ses-" and k in two digits,
\* whatever mapped studies come before it; without a session map, or
\* without a trailing descriptor, a study takes the sequential label.
C5_SequentialSessions ==
    pc = "assigned" =>
        \A i \in 1..Len(selected_studies) :
            LET st == selected_studies[i] IN
            /\ ~GetsMapLabel(st) =>
                  st.ses_label = SesPrefix \o TwoDigits(Cardinality(UnmappedBefore(i)) + 1)
            /\ (session_map = <<>> \/ parse_trailing_substring(st.patient_name) = None) =>
                  /\ ~GetsMapLabel(st)
                  /\ st.ses_label = SesPrefix \o TwoDigits(Cardinality(UnmappedBefore(i)) + 1)

\* a mapped study between two unmapped ones of the same subject, the later
\* labelled ses-02, and a tenth unmapped study labelled ses-10
C5_Witness ==
    /\ pc = "assigned"
    /\ \E i, j, k \in 1..Len(selected_studies) :
          /\ DateBefore(i, j) /\ DateBefore(j, k)
          /\ selected_studies[i].sub_label = selected_studies[j].sub_label
          /\ selected_studies[j].sub_label = selected_studies[k].sub_label
          /\ ~GetsMapLabel(selected_studies[i])
          /\ GetsMapLabel(selected_studies[j])
          /\ ~GetsMapLabel(selected_studies[k])
          /\ selected_studies[i].ses_label = <<"s","e","s","-","0","1">>
          /\ selected_studies[k].ses_label = <<"s","e","s","-","0","2">>
    /\ \E i \in 1..Len(selected_studies) :
          /\ ~GetsMapLabel(selected_studies[i])
          /\ selected_studies[i].ses_label = <<"s","e","s","-","1","0">>

----------------------------------------------------------------------------
(* The selection of mode 1, read off the presented list *)

Mode1Chosen == choice = "1" /\ pc \in {"selected", "exit"} /\ user_line # <<>>

Selected == {selected_studies[k] : k \in 1..Len(selected_studies)}

\* the studies a token stands for: the one at that position of the list,
\* those with that patient name, the one with that identifier
StandsFor(token) ==
    {studies[i] : i \in {j \in 1..Len(studies) :
                            \/ IsDigitString(token) /\ ToInt(token) = j
                            \/ studies[j].patient_name = token
                            \/ studies[j].study_uid = token}}

\* C14: every token that is a number from 1 to N, the patient name of a
\* presented study or the identifier of a presented study adds the studies
\* it stands for to the selection; only a token that is none of these is
\* skipped.
C14_TokensSelect ==
    Mode1Chosen =>
        \A k \in 1..Len(Split(user_line)) :
            StandsFor(Split(user_line)[k]) \subseteq Selected

----------------------------------------------------------------------------
(* query_and_download.py: main, mode 3 *)

\* x in list
\* str.replace(pat, "")
RECURSIVE RemoveAll(_, _)
RemoveAll(s, pat) ==
    IF Len(s) < Len(pat) \/ s = <<>> THEN s
    ELSE IF OccursAt(s, pat, 1)
         THEN RemoveAll(SubSeq(s, Len(pat) + 1, Len(s)), pat)
         ELSE <<s[1]>> \o RemoveAll(SubSeq(s, 2, Len(s)), pat)

NonNumericKey == 999999

sub_numeric_key(s) ==
    LET r == PyInt(RemoveAll(s, SubPrefix)) IN IF r.ok THEN r.value ELSE NonNumericKey

ses_numeric_key(s) ==
    LET r == PyInt(RemoveAll(s, SesPrefix)) IN IF r.ok THEN r.value ELSE NonNumericKey

\* sub in subjects_dict, the dict being a sequence of [sub, sessions] entries
HasSubject(sd, sub) == \E e \in 1..Len(sd) : sd[e].sub = sub

\* subjects_dict[sub]
SessionFolders(sd, sub) == sd[CHOOSE e \in 1..Len(sd) : sd[e].sub = sub].sessions

\* membership in the session folders of any subject
SessionAllowed_AnySubject(sd, sub, ses) ==
    \E e \in 1..Len(sd) : InList(sd[e].sessions, ses)

\* ... in subjects_dict[sub_label]
SessionAllowed(sd, sub, ses) == InList(SessionFolders(sd, sub), ses)

\* the literal candidate taken as written
LiteralCandidate_AsWritten(trail) == IF Truthy(trail) THEN trail ELSE <<>>

\* trailing_lower = trailing.lower().strip() if trailing else ""
LiteralCandidate(trail) == IF Truthy(trail) THEN Strip(Lower(trail)) ELSE <<>>

\* the session label of a study of subject sub; None when the loop body
\* ends in continue
MatchSession(sd, sub, trail, sm) ==
    LET mapped == find_session_label(sub, trail, sm)
        label == IF mapped = None
                 THEN IF SessionAllowed(sd, sub, LiteralCandidate(trail))
                      THEN LiteralCandidate(trail)
                      ELSE None
                 ELSE mapped
    IN  IF label # None /\ SessionAllowed(sd, sub, label) THEN label ELSE None

\* matched_studies after the first n studies of the list
RECURSIVE MatchStudies(_, _, _, _)
MatchStudies(list, n, sd, sm) ==
    IF n = 0 THEN <<>>
    ELSE LET before == MatchStudies(list, n - 1, sd, sm)
             st == list[n]
             sub == parse_subject_digits(st.patient_name)
         IN  IF ~Truthy(sub) \/ ~HasSubject(sd, sub) THEN before
             ELSE LET ses == MatchSession(sd, sub,
                                          parse_trailing_substring(st.patient_name), sm)
                  IN  IF ses = None THEN before
                      ELSE Append(before, [sub_label |-> sub,
                                           ses_label |-> ses,
                                           out_dir   |-> <<sub, ses>>] @@ st)

\* PutSession keeping the study the session already has
PutSession_KeepFirst(sessions, st) ==
    IF \E k \in 1..Len(sessions) : sessions[k].ses = st.ses_label
    THEN sessions
    ELSE Append(sessions, [ses |-> st.ses_label, study |-> st])

\* subject_dict.setdefault(subj, {})[sess] = st, the dicts being sequences
\* in insertion order
PutSession(sessions, st) ==
    IF \E k \in 1..Len(sessions) : sessions[k].ses = st.ses_label
    THEN [k \in 1..Len(sessions) |->
             IF sessions[k].ses = st.ses_label
             THEN [ses |-> st.ses_label, study |-> st]
             ELSE sessions[k]]
    ELSE Append(sessions, [ses |-> st.ses_label, study |-> st])

PutStudy(d, st) ==
    IF \E e \in 1..Len(d) : d[e].sub = st.sub_label
    THEN [e \in 1..Len(d) |->
             IF d[e].sub = st.sub_label
             THEN [sub |-> d[e].sub, sessions |-> PutSession(d[e].sessions, st)]
             ELSE d[e]]
    ELSE Append(d, [sub |-> st.sub_label,
                    sessions |-> <<[ses |-> st.ses_label, study |-> st]>>])

RECURSIVE BuildSubjectDict(_, _)
BuildSubjectDict(list, n) ==
    IF n = 0 THEN <<>> ELSE PutStudy(BuildSubjectDict(list, n - 1), list[n])

\* sorted(subject_dict.keys(), key=sub_numeric_key), as entries
SortedSubjects(d) ==
    LET sorted == SortByKey([e \in 1..Len(d) |->
                      [key |-> sub_numeric_key(d[e].sub), item |-> d[e]]])
    IN  [e \in 1..Len(d) |-> sorted[e].item]

\* sorted(subject_dict[subj].keys(), key=ses_numeric_key), as entries
SortedSessions(entry) ==
    LET ss == entry.sessions
        sorted == SortByKey([k \in 1..Len(ss) |->
                      [key |-> ses_numeric_key(ss[k].ses), item |-> ss[k]]])
    IN  [k \in 1..Len(ss) |-> sorted[k].item]

StudiesOf(sessions) == [k \in 1..Len(sessions) |-> sessions[k].study]

\* t in subject_dict
IsSubjectKey(d, t) == \E e \in 1..Len(d) : d[e].sub = t

\* t in all_ses_keys
IsSessionKey(d, t) ==
    \E e \in 1..Len(d) : \E k \in 1..Len(d[e].sessions) : d[e].sessions[k].ses = t

\* recognized_subs = [t for t in tokens if t in subject_dict]
RecognizedSubs(d, tokens) ==
    LET Known(t) == IsSubjectKey(d, t) IN SelectSeq(tokens, Known)

\* recognized_ses left empty
RecognizedSes_None(d, tokens) == <<>>

\* recognized_ses = [t for t in tokens if t in all_ses_keys]
RecognizedSes(d, tokens) ==
    LET Known(t) == IsSessionKey(d, t) IN SelectSeq(tokens, Known)

\* (A): the studies passed to run_dicom_download_command, in call order
HandAll(d) ==
    LET subs == SortedSubjects(d)
    IN  Flatten([e \in 1..Len(subs) |-> StudiesOf(SortedSessions(subs[e]))])

\* (B) without the test of recognized_ses
HandSessions_Unfiltered(d, recognized_ses) == HandAll(d)

\* (B)
HandSessions(d, recognized_ses) ==
    LET subs == SortedSubjects(d)
        Chosen(s) == InList(recognized_ses, s.ses)
    IN  Flatten([e \in 1..Len(subs) |->
                    StudiesOf(SelectSeq(SortedSessions(subs[e]), Chosen))])

\* subject_dict[subj], for a key subj
SubjectEntry(d, subj) == d[CHOOSE e \in 1..Len(d) : d[e].sub = subj]

\* (C) with every follow-up line taken as empty
HandSubjects_AllSessions(d, recognized_subs, answers) ==
    Flatten([i \in 1..Len(recognized_subs) |->
                StudiesOf(SortedSessions(SubjectEntry(d, recognized_subs[i])))])

\* (C): answers[subj] is session_map_input[subj], the follow-up line
HandSubjects(d, recognized_subs, answers) ==
    LET ForSubject(subj) ==
            LET entry == SubjectEntry(d, subj)
                chosen_ses == Split(answers[subj])
                Known(ses) == \E k \in 1..Len(entry.sessions) :
                                  entry.sessions[k].ses = ses
                known == SelectSeq(chosen_ses, Known)
            IN  IF answers[subj] = <<>>
                THEN StudiesOf(SortedSessions(entry))
                ELSE [k \in 1..Len(known) |->
                         entry.sessions[CHOOSE x \in 1..Len(entry.sessions) :
                                           entry.sessions[x].ses = known[k]].study]
    IN  Flatten([i \in 1..Len(recognized_subs) |-> ForSubject(recognized_subs[i])])

\* (D) without the test of recognized_ses
HandPairs_AllSessions(d, recognized_subs, recognized_ses) ==
    Flatten([i \in 1..Len(recognized_subs) |->
                StudiesOf(SubjectEntry(d, recognized_subs[i]).sessions)])

\* (D)
HandPairs(d, recognized_subs, recognized_ses) ==
    LET ForSubject(subj) ==
            LET entry == SubjectEntry(d, subj)
                Known(ses) == \E k \in 1..Len(entry.sessions) :
                                  entry.sessions[k].ses = ses
                known == SelectSeq(recognized_ses, Known)
            IN  [k \in 1..Len(known) |->
                    entry.sessions[CHOOSE x \in 1..Len(entry.sessions) :
                                      entry.sessions[x].ses = known[k]].study]
    IN  Flatten([i \in 1..Len(recognized_subs) |-> ForSubject(recognized_subs[i])])

----------------------------------------------------------------------------
(* Mode 3: inputs and steps *)

MaxLocalStudies == 2

Sub1 == <<"s","u","b","-","1">>

Sub2 == <<"s","u","b","-","2">>

Sub10 == <<"s","u","b","-","1","0">>

Ses01 == <<"s","e","s","-","0","1">>

Ses02 == <<"s","e","s","-","0","2">>

SesX == <<"s","e","s","-","x">>

\* a session folder named after a date
SesDate == <<"s","e","s","-","2","0","2","3","0","8","2","2">>

Folder(sub, sessions) == [sub |-> sub, sessions |-> sessions]

Taxonomy ==
    << Folder(Sub1, <<Ses01, Ses02>>),
       Folder(Sub2, <<Ses01>>),
       Folder(Sub10, <<SesX, SesDate>>) >>

SmallTaxonomy == << Folder(Sub1, <<Ses02>>) >>

LocalSessionMap ==
    << Entry(<<"b">>, <<"0","1">>),
       Entry(Ses02, <<"0","9">>),
       Entry(<<"b","i","g">>, SesDate),
       Entry(SesX, <<>>) >>

\* <<subjects_dict, session_map>>
LocalConfigs ==
    { <<Taxonomy, <<>>>>, <<Taxonomy, LocalSessionMap>>, <<SmallTaxonomy, <<>>>> }

\* <<patient_name, study_date>>
LocalStudyChoices ==
    { <<<<"1","_","b">>, Date2>>,
      <<<<"1","_","b">>, Date1>>,
      <<<<"1","_","S","E","S","-","0","2"," ">>, Date1>>,
      <<<<"2","_","s","e","s","-","0","1">>, Date2>>,
      <<<<"3","_","s","e","s","-","0","1">>, Date1>>,
      <<<<"2","_","s","e","s","-","0","2">>, Date1>>,
      <<<<"1","0","_","S","e","s","-","x"," ">>, <<>>>>,
      <<<<"1","0","_","b","i","g">>, Date1>>,
      <<<<"x">>, Date1>>,
      <<<<"2","_","s","e","s","-","0","1">>, <<SuperscriptTwo>>>>,
      <<None, Date1>> }

\* a longer query result: three subjects, two studies of one session
LocalExample ==
    << <<<<"1","0","_","S","e","s","-","x"," ">>, <<>>>>,
       <<<<"2","_","s","e","s","-","0","1">>, Date2>>,
       <<<<"1","_","b">>, Date2>>,
       <<<<"1","_","S","E","S","-","0","2"," ">>, Date1>>,
       <<<<"1","0","_","b","i","g">>, Date1>>,
       <<<<"1","_","b">>, Date1>> >>

Unknown == <<"z","z","z">>

\* what the user may type at the filter prompt
UserLines ==
    { <<>>,
      <<" ">>,
      Ses01,
      Words(<<Ses01, Unknown, SesX>>),
      Unknown,
      Sub1,
      Words(<<Sub10, Sub1>>),
      Words(<<Sub1, Ses01>>),
      Words(<<Sub10, Sub1, SesX, Ses01>>),
      Words(<<Sub1, Sub1, Ses01, Ses01>>) }

\* what the user may type at the follow-up prompt of a subject
FollowUpLines ==
    { <<>>, Ses01, Words(<<Ses02, <<"s","e","s","-","9">>>>), Words(<<Unknown, SesX>>) }

InitMatch ==
    /\ DownloadUnused
    /\ pc = "queried"
    /\ choice = "3"
    /\ all_studies \in {AsStudies(l) :
                          l \in (SeqsUpTo(LocalStudyChoices, MaxLocalStudies) \ {<<>>})
                                \cup {LocalExample}}
    /\ \E cfg \in LocalConfigs : subjects_dict = cfg[1] /\ session_map = cfg[2]
    /\ studies = <<>>
    /\ selected_studies = <<>>
    /\ subject_dict = <<>>
    /\ user_line = <<>>
    /\ session_map_input = <<>>
    /\ handed = <<>>
    /\ ParserUnused
    /\ ResolverUnused

\* the matching loop, studies.sort(...), the return when nothing matched and
\* the loop that fills subject_dict.  re.match raises TypeError on a
\* patient_name that is None, and the sort ValueError on a date that
\* date_to_int cannot convert.
MatchLocal ==
    /\ pc = "queried"
    /\ choice = "3"
    /\ IF \E i \in 1..Len(all_studies) : all_studies[i].patient_name = None
       THEN /\ pc' = "crashed"
            /\ UNCHANGED <<studies, subject_dict>>
       ELSE LET matched_studies == MatchStudies(all_studies, Len(all_studies),
                                               subjects_dict, session_map)
            IN  IF \E i \in 1..Len(matched_studies) :
                      date_to_int_raises(matched_studies[i].study_date)
                THEN /\ pc' = "crashed"
                     /\ studies' = matched_studies
                     /\ UNCHANGED subject_dict
                ELSE LET matched == SortStudiesByDate(matched_studies)
                     IN  /\ studies' = matched
                         /\ subject_dict' = BuildSubjectDict(matched, Len(matched))
                         /\ pc' = IF matched = <<>> THEN "exit" ELSE "indexed"
    /\ UNCHANGED <<downloadVars, parserVars, resolverVars, session_map, choice, selected_studies,
                   all_studies, subjects_dict, user_line, session_map_input, handed>>

selectFrame ==
    <<downloadVars, parserVars, studies, resolverVars, session_map, choice, selected_studies,
      all_studies, subjects_dict, subject_dict>>

\* (A) the line is empty: all subjects, all sessions
SelectAll ==
    /\ pc = "indexed"
    /\ \E raw \in UserLines :
          /\ Strip(raw) = <<>>
          /\ user_line' = Strip(raw)
    /\ handed' = HandAll(subject_dict)
    /\ pc' = "done"
    /\ UNCHANGED <<selectFrame, session_map_input>>

\* (B) only sessions are recognized
SelectSessions ==
    /\ pc = "indexed"
    /\ \E raw \in UserLines :
          LET tokens == Split(Strip(raw))
              recognized_subs == RecognizedSubs(subject_dict, tokens)
              recognized_ses == RecognizedSes(subject_dict, tokens)
          IN  /\ user_line' = Strip(raw)
              /\ Strip(raw) # <<>>
              /\ recognized_subs = <<>> /\ recognized_ses # <<>>
              /\ handed' = HandSessions(subject_dict, recognized_ses)
    /\ pc' = "done"
    /\ UNCHANGED <<selectFrame, session_map_input>>

\* (C) only subjects are recognized: one follow-up line for each
SelectSubjects ==
    /\ pc = "indexed"
    /\ \E raw \in UserLines :
          LET tokens == Split(Strip(raw))
              recognized_subs == RecognizedSubs(subject_dict, tokens)
              recognized_ses == RecognizedSes(subject_dict, tokens)
              asked == {recognized_subs[i] : i \in 1..Len(recognized_subs)}
          IN  /\ user_line' = Strip(raw)
              /\ Strip(raw) # <<>>
              /\ recognized_subs # <<>> /\ recognized_ses = <<>>
              /\ \E answers \in [asked -> FollowUpLines] :
                    /\ session_map_input' = answers
                    /\ handed' = HandSubjects(subject_dict, recognized_subs, answers)
    /\ pc' = "done"
    /\ UNCHANGED selectFrame

\* (D) subjects and sessions are recognized
SelectPairs ==
    /\ pc = "indexed"
    /\ \E raw \in UserLines :
          LET tokens == Split(Strip(raw))
              recognized_subs == RecognizedSubs(subject_dict, tokens)
              recognized_ses == RecognizedSes(subject_dict, tokens)
          IN  /\ user_line' = Strip(raw)
              /\ Strip(raw) # <<>>
              /\ recognized_subs # <<>> /\ recognized_ses # <<>>
              /\ handed' = HandPairs(subject_dict, recognized_subs, recognized_ses)
    /\ pc' = "done"
    /\ UNCHANGED <<selectFrame, session_map_input>>

\* nothing is recognized: "No recognized subjects or sessions found."
SelectNothing ==
    /\ pc = "indexed"
    /\ \E raw \in UserLines :
          LET tokens == Split(Strip(raw))
          IN  /\ user_line' = Strip(raw)
              /\ Strip(raw) # <<>>
              /\ RecognizedSubs(subject_dict, tokens) = <<>>
              /\ RecognizedSes(subject_dict, tokens) = <<>>
    /\ pc' = "nothing"
    /\ UNCHANGED <<selectFrame, session_map_input, handed>>

NextMatch ==
    \/ MatchLocal
    \/ SelectAll
    \/ SelectSessions
    \/ SelectSubjects
    \/ SelectPairs
    \/ SelectNothing

SpecMatch == InitMatch /\ [][NextMatch]_vars

----------------------------------------------------------------------------
(* The local matching step, read off the query result *)

Matched == pc \in {"indexed", "exit"}

\* the record of matched_studies made from study st, if any
RecordsOf(st) == {i \in 1..Len(studies) : studies[i].study_uid = st.study_uid}

Dropped(st) == RecordsOf(st) = {}

KeptAs(st, sub, ses) ==
    /\ RecordsOf(st) # {}
    /\ \A i \in RecordsOf(st) :
          studies[i].sub_label = sub /\ studies[i].ses_label = ses

TaxonomyKeys == {subjects_dict[e].sub : e \in 1..Len(subjects_dict)}

SessionSet(sub) ==
    UNION {{subjects_dict[e].sessions[k] : k \in 1..Len(subjects_dict[e].sessions)} :
              e \in {x \in 1..Len(subjects_dict) : subjects_dict[x].sub = sub}}

\* the trailing descriptor in lower case, trimmed ("" when absent)
Descriptor(st) ==
    LET t == parse_trailing_substring(st.patient_name)
    IN  IF Truthy(t) THEN Strip(Lower(t)) ELSE <<>>

\* the subject of st is absent or no key of the taxonomy
ForeignSubject(st) ==
    LET sub == parse_subject_digits(st.patient_name)
    IN  sub = None \/ sub \notin TaxonomyKeys

\* C7: every record of the matching step has a subject label that is a key
\* of the taxonomy and a session label of that subject's own session set, and
\* a study whose subject is absent or no taxonomy key leaves no record,
\* whatever its trailing descriptor.
C7_OwnSubjectAndSession ==
    Matched =>
        /\ \A i \in 1..Len(studies) :
              /\ studies[i].sub_label \in TaxonomyKeys
              /\ studies[i].ses_label \in SessionSet(studies[i].sub_label)
        /\ \A j \in 1..Len(all_studies) :
              ForeignSubject(all_studies[j]) => Dropped(all_studies[j])

\* a study of an unknown subject whose descriptor is a session of a known
\* subject is dropped while another study is kept
C7_Witness ==
    /\ pc = "indexed"
    /\ \E j \in 1..Len(all_studies) :
          /\ ForeignSubject(all_studies[j])
          /\ \E sub \in TaxonomyKeys : Descriptor(all_studies[j]) \in SessionSet(sub)
          /\ Dropped(all_studies[j])

\* the session-map entries that give the descriptor of st a session label
MapHits(st) ==
    {e \in 1..Len(session_map) :
        /\ Truthy(parse_trailing_substring(st.patient_name))
        /\ session_map[e].key = Descriptor(st)
        /\ Truthy(session_map[e].value)}

\* C8: a study of a taxonomy subject whose descriptor has no session-map hit
\* is kept, labelled with the lower-cased and trimmed descriptor, exactly
\* when that string is in the subject's session set; a study whose
\* descriptor has a hit is kept, labelled with the mapped label, exactly when
\* the mapped label is in the subject's session set.
C8_LiteralFallback ==
    Matched =>
        \A j \in 1..Len(all_studies) :
            LET st == all_studies[j]
                sub == parse_subject_digits(st.patient_name)
            IN  ~ForeignSubject(st) =>
                   IF MapHits(st) = {}
                   THEN IF Descriptor(st) \in SessionSet(sub)
                        THEN KeptAs(st, sub, Descriptor(st))
                        ELSE Dropped(st)
                   ELSE \A e \in MapHits(st) :
                           LET mapped == AsSessionLabel(session_map[e].value)
                           IN  IF mapped \in SessionSet(sub)
                               THEN KeptAs(st, sub, mapped)
                               ELSE Dropped(st)

\* one study is kept under a label that differs from its descriptor as
\* written, another is dropped on its mapped label although its descriptor
\* names a session folder of its subject
C8_Witness ==
    /\ pc = "indexed"
    /\ \E j \in 1..Len(all_studies) :
          LET st == all_studies[j]
          IN  /\ ~ForeignSubject(st)
              /\ MapHits(st) = {}
              /\ parse_trailing_substring(st.patient_name) # Descriptor(st)
              /\ KeptAs(st, parse_subject_digits(st.patient_name), Descriptor(st))
    /\ \E j \in 1..Len(all_studies) :
          LET st == all_studies[j]
          IN  /\ ~ForeignSubject(st)
              /\ MapHits(st) # {}
              /\ Descriptor(st) \in SessionSet(parse_subject_digits(st.patient_name))
              /\ Dropped(st)

----------------------------------------------------------------------------
(* The selection branches, read off the subject/session index *)

\* the (subject, session) pairs of the index
IndexPairs ==
    UNION {{<<subject_dict[e].sub, subject_dict[e].sessions[k].ses>> :
               k \in 1..Len(subject_dict[e].sessions)} : e \in 1..Len(subject_dict)}

\* subject_dict[sub][ses]
IndexStudy(pair) ==
    LET e == CHOOSE x \in 1..Len(subject_dict) : subject_dict[x].sub = pair[1]
        k == CHOOSE y \in 1..Len(subject_dict[e].sessions) :
                 subject_dict[e].sessions[y].ses = pair[2]
    IN  subject_dict[e].sessions[k].study

\* the studies of the pairs P, and no other, are handed over, each once
HandedExactly(P) ==
    /\ {handed[i] : i \in 1..Len(handed)} = {IndexStudy(p) : p \in P}
    /\ Len(handed) = Cardinality(P)

\* the number of a label such as sub-010 or ses-02
LabelDigits(label) == SubSeq(label, 5, Len(label))

IsNumericLabel(label) == IsDigitString(LabelDigits(label))

LabelNumber(label) == ToInt(LabelDigits(label))

\* a may come before b: ascending numbers, labels without a number last
InNumericOrder(a, b) ==
    IF IsNumericLabel(a) /\ IsNumericLabel(b)
    THEN LabelNumber(a) <= LabelNumber(b)
    ELSE IsNumericLabel(a) \/ ~IsNumericLabel(b)

EmptyLine == pc = "done" /\ user_line = <<>>

\* C9: with an empty line, every pair of the index and nothing else is
\* handed to the download step, subjects in ascending numeric order and the
\* sessions of a subject in ascending numeric order, labels without a number
\* last.
C9_AllPairsInNumericOrder ==
    EmptyLine =>
        /\ HandedExactly(IndexPairs)
        /\ \A i, j \in 1..Len(handed) :
              i < j =>
                 /\ InNumericOrder(handed[i].sub_label, handed[j].sub_label)
                 /\ handed[i].sub_label = handed[j].sub_label
                       => InNumericOrder(handed[i].ses_label, handed[j].ses_label)

\* the tokens of the line
Tokens == {Split(user_line)[i] : i \in 1..Len(Split(user_line))}

SessionTokens == {t \in Tokens : \E p \in IndexPairs : p[2] = t}

SubjectTokens == {t \in Tokens : \E p \in IndexPairs : p[1] = t}

SessionsOnly == pc = "done" /\ SubjectTokens = {} /\ SessionTokens # {}

\* C10: when some token is a session label of the index and none is a
\* subject label, the studies handed to the download step are exactly those
\* of the pairs of the index whose session is a recognized token, each once;
\* the other tokens play no part.
C10_RecognizedSessionsOfEverySubject ==
    SessionsOnly => HandedExactly({p \in IndexPairs : p[2] \in SessionTokens})

\* a line with an unknown token selects some pairs of the index and leaves
\* others out
C10_Witness ==
    /\ SessionsOnly
    /\ Tokens # SessionTokens
    /\ handed # <<>>
    /\ \E p \in IndexPairs : p[2] \notin SessionTokens

SubjectsOnly == pc = "done" /\ SubjectTokens # {} /\ SessionTokens = {}

\* the names in the follow-up line of a subject
Answered(sub) ==
    {Split(session_map_input[sub])[i] : i \in 1..Len(Split(session_map_input[sub]))}

\* C11: when some token is a subject label of the index and none is a
\* session label, the studies handed to the download step are those of the
\* recognized subjects only: all sessions of a subject whose follow-up line
\* is empty, otherwise its sessions named in the follow-up line, the names
\* it does not have being skipped.
C11_SubjectsWithFollowUp ==
    SubjectsOnly =>
        {handed[i] : i \in 1..Len(handed)} =
            {IndexStudy(p) :
                p \in {q \in IndexPairs :
                          /\ q[1] \in SubjectTokens
                          /\ \/ session_map_input[q[1]] = <<>>
                             \/ q[2] \in Answered(q[1])}}

\* one subject answers with a name it has and a name it does not have and
\* leaves a session of its own out, another subject of the index is not named
C11_Witness ==
    /\ SubjectsOnly
    /\ handed # <<>>
    /\ \E sub \in SubjectTokens :
          /\ \E name \in Answered(sub) : <<sub, name>> \notin IndexPairs
          /\ \E name \in Answered(sub) : <<sub, name>> \in IndexPairs
          /\ \E p \in IndexPairs : p[1] = sub /\ p[2] \notin Answered(sub)
    /\ \E p \in IndexPairs : p[1] \notin SubjectTokens

SubjectsAndSessions == pc = "done" /\ SubjectTokens # {} /\ SessionTokens # {}

\* what branch (A) hands over on the same index
WouldHandAll == {HandAll(subject_dict)[i] : i \in 1..Len(HandAll(subject_dict))}

\* C12: when some tokens are subject labels and some are session labels of
\* the index, the studies handed to the download step are those of the pairs
\* of the index made of a recognized subject and a recognized session, and
\* so are among the studies that the empty line hands over on this index.
C12_RecognizedPairsOnly ==
    SubjectsAndSessions =>
        /\ {handed[i] : i \in 1..Len(handed)} =
              {IndexStudy(p) :
                  p \in {q \in IndexPairs :
                            q[1] \in SubjectTokens /\ q[2] \in SessionTokens}}
        /\ {handed[i] : i \in 1..Len(handed)} \subseteq WouldHandAll

\* a session of a recognized subject is left out, and a recognized subject
\* does not have one of the recognized sessions
C12_Witness ==
    /\ SubjectsAndSessions
    /\ handed # <<>>
    /\ \E p \in IndexPairs : p[1] \in SubjectTokens /\ p[2] \notin SessionTokens
    /\ \E sub \in SubjectTokens, ses \in SessionTokens : <<sub, ses>> \notin IndexPairs

\* the outcomes (a)-(e) that the tokens of a line call for on the index
OutcomesOf(line) ==
    LET tokens == {Split(line)[i] : i \in 1..Len(Split(line))}
        subs == {t \in tokens : \E p \in IndexPairs : p[1] = t}
        sess == {t \in tokens : \E p \in IndexPairs : p[2] = t}
    IN  {o \in {"a", "b", "c", "d", "e"} :
            \/ o = "a" /\ line = <<>>
            \/ o = "b" /\ subs = {} /\ sess # {}
            \/ o = "c" /\ subs # {} /\ sess = {}
            \/ o = "d" /\ subs # {} /\ sess # {}
            \/ o = "e" /\ line # <<>> /\ subs = {} /\ sess = {}}

\* C13: a step of the selection is the step of exactly one of the outcomes
\* (a)-(e), the one its line calls for; when the line is not empty and no
\* token is a subject or a session of the index, nothing is handed to the
\* download step and the run ends with the report, never in an error.
C13_ExactlyOneOutcome ==
    [][pc = "indexed" =>
          LET taken == {o \in {"a", "b", "c", "d", "e"} :
                           \/ o = "a" /\ SelectAll
                           \/ o = "b" /\ SelectSessions
                           \/ o = "c" /\ SelectSubjects
                           \/ o = "d" /\ SelectPairs
                           \/ o = "e" /\ SelectNothing}
          IN  /\ Cardinality(taken) = 1
              /\ taken = OutcomesOf(user_line')
              /\ pc' = IF taken = {"e"} THEN "nothing" ELSE "done"
              /\ taken = {"e"} => handed' = <<>>]_vars

\* a line of unknown tokens ends the run with nothing handed over
C13_Witness ==
    /\ pc = "nothing"
    /\ subject_dict # <<>>
    /\ Tokens # {}
    /\ SubjectTokens = {} /\ SessionTokens = {}
    /\ handed = <<>>

----------------------------------------------------------------------------
(* download_dicom.py: download_dicom, and run_dicom_download_command *)

\* METADATA_FILE: no file, a JSON object, text that is no JSON, bytes that
\* are no text, JSON that is no object
FileAbsent == [kind |-> "absent", data |-> <<>>]

ObjectFile(data) == [kind |-> "object", data |-> data]

InvalidJsonFile == [kind |-> "invalid_json", data |-> <<>>]

InvalidUtf8File == [kind |-> "invalid_utf8", data |-> <<>>]

NotObjectFile == [kind |-> "not_object", data |-> <<>>]

\* numeric_age: None is <<>>, the integer n is <<n>>
NullAge == <<>>

\* match = re.search(r"(\d+)", patient_age); int(match.group(1))
numeric_age(patient_age) ==
    LET i == SkipNotIn(patient_age, 1, Digits)
        j == SkipIn(patient_age, i, Digits)
    IN  IF i > Len(patient_age) THEN NullAge
        ELSE <<ToInt(SubSeq(patient_age, i, j - 1))>>

\* d[k] = v on a dict kept as a sequence of entries in insertion order
DictPut(d, k, v) ==
    IF \E e \in 1..Len(d) : d[e].key = k
    THEN [e \in 1..Len(d) |-> IF d[e].key = k THEN Entry(k, v) ELSE d[e]]
    ELSE Append(d, Entry(k, v))

\* for k, v in existing_data.items(): _collected_metadata[k] = v
RECURSIVE MergeInto(_, _)
MergeInto(d, data) ==
    IF data = <<>> THEN d
    ELSE MergeInto(DictPut(d, data[1].key, data[1].value), SubSeq(data, 2, Len(data)))

NoDigitsKey == 999999999

\* m = re.search(r"\d+", label); int(m.group()) if m else 999999999
subject_number(label) ==
    LET i == SkipNotIn(label, 1, Digits)
        j == SkipIn(label, i, Digits)
    IN  IF i > Len(label) THEN NoDigitsKey ELSE ToInt(SubSeq(label, i, j - 1))

\* ordered_data = {k: _collected_metadata[k] for k in sorted_keys}
OrderedData(d) ==
    LET sorted == SortByKey([e \in 1..Len(d) |->
                      [key |-> subject_number(d[e].key), item |-> d[e]]])
    IN  [e \in 1..Len(d) |-> sorted[e].item]

\* what one call does: docker is "skipped", "failed" or "ok"; read and write
\* are "none", "ok", "warned" or "raised"; raised says that an exception
\* leaves the call
CallResult(docker, read, write, raised, collected, file) ==
    [docker |-> docker, read |-> read, write |-> write, raised |-> raised,
     collected |-> collected, file |-> file]

\* env: exit_code of the docker command, read_error (open for reading raises
\* OSError), mkdir_error (os.makedirs raises OSError), write ("ok",
\* "open_fails", "dump_fails")
download_dicom(study, create, env, collected, file) ==
    IF env.exit_code # 0
    THEN CallResult("failed", "none", "none", FALSE, collected, file)
    ELSE IF ~create
    THEN CallResult("ok", "none", "none", FALSE, collected, file)
    ELSE IF study.patient_age = None
    THEN \* re.search on None raises TypeError
         CallResult("ok", "none", "none", TRUE, collected, file)
    ELSE
    LET read == IF file.kind = "absent" THEN "none"
                ELSE IF env.read_error THEN "warned"
                ELSE IF file.kind = "object" THEN "ok"
                ELSE IF file.kind = "invalid_json" THEN "warned"
                ELSE \* UnicodeDecodeError, or AttributeError on .items()
                     "raised"
        merged == IF read = "ok" THEN MergeInto(collected, file.data) ELSE collected
        updated == DictPut(merged, study.sub_label,
                           [age |-> numeric_age(study.patient_age),
                            sex |-> study.patient_sex])
    IN  IF read = "raised"
        THEN CallResult("ok", "raised", "none", TRUE, collected, file)
        ELSE IF env.mkdir_error
        THEN \* os.makedirs is outside the try blocks
             CallResult("ok", read, "raised", TRUE, updated, file)
        ELSE IF env.write = "ok"
        THEN CallResult("ok", read, "ok", FALSE, updated,
                        ObjectFile(OrderedData(updated)))
        ELSE IF env.write = "open_fails"
        THEN CallResult("ok", read, "warned", FALSE, updated, file)
        ELSE \* the file is left truncated
             CallResult("ok", read, "warned", FALSE, updated, InvalidJsonFile)

\* the call without the except clause for CalledProcessError
run_dicom_download_command_Unhandled(study, check, create, env, collected, file) ==
    LET result == download_dicom(study, create, env, collected, file)
    IN  IF check /\ env.archives
        THEN CallResult("skipped", "none", "none", FALSE, collected, file)
        ELSE [result EXCEPT !.raised = result.raised \/ result.docker = "failed"]

\* the call that warns of the archives and downloads all the same
run_dicom_download_command_NoReturn(study, check, create, env, collected, file) ==
    LET result == download_dicom(study, create, env, collected, file)
    IN  IF check /\ env.archives /\ ~result.raised
        THEN [result EXCEPT !.docker = "skipped"]
        ELSE result

\* env.archives: out_dir is a directory that holds an archive
run_dicom_download_command(study, check, create, env, collected, file) ==
    IF check /\ env.archives
    THEN CallResult("skipped", "none", "none", FALSE, collected, file)
    ELSE download_dicom(study, create, env, collected, file)

----------------------------------------------------------------------------
(* The download loop: inputs and steps *)

MaxDownloads == 2

SubUnnumbered == <<"s","u","b","-","u","n","k","n","o","w","n">>

\* <<sub_label, ses_label, patient_age, patient_sex>> of a selected study;
\* a study whose PatientAge the server left out has the age None
DownloadStudyChoices ==
    { <<Sub1, Ses01, <<"0","6","5","Y">>, <<"M">>>>,
      <<Sub10, Ses01, <<>>, <<"F">>>>,
      <<SubUnnumbered, Ses02, <<"Y">>, <<>>>>,
      <<Sub2, Ses01, None, <<"M">>>> }

AsSelected(l) ==
    [i \in 1..Len(l) |-> [study_uid   |-> <<"1", ".">> \o Dec(i),
                          sub_label   |-> l[i][1],
                          ses_label   |-> l[i][2],
                          out_dir     |-> <<l[i][1], l[i][2]>>,
                          patient_age |-> l[i][3],
                          patient_sex |-> l[i][4]]]

\* a side-file written by an earlier run; its last subject had the patient
\* name 20230822001, a date and a number written without underscores, of
\* which parse_subject_digits makes sub-20230822001
EarlierFile ==
    ObjectFile(<< Entry(Sub1, [age |-> <<30>>, sex |-> <<"F">>]),
                  Entry(<<"s","u","b","-","3">>, [age |-> NullAge, sex |-> <<>>]),
                  Entry(SubPrefix \o <<"2","0","2","3","0","8","2","2","0","0","1">>,
                        [age |-> <<41>>, sex |-> <<"M">>]) >>)

InitialFiles ==
    {FileAbsent, EarlierFile, InvalidJsonFile, InvalidUtf8File, NotObjectFile}

\* modes 1 and 2 pass check_existing_archives=False, mode 3 passes True
DownloadFlags == {<<FALSE, TRUE>>, <<TRUE, TRUE>>, <<TRUE, FALSE>>}

DownloadEnvs ==
    [archives : BOOLEAN, exit_code : {0, 1}, read_error : BOOLEAN,
     mkdir_error : BOOLEAN, write : {"ok", "open_fails", "dump_fails"}]

InitDownload ==
    /\ pc = "downloading"
    /\ handed \in {AsSelected(l) :
                      l \in SeqsUpTo(DownloadStudyChoices, MaxDownloads) \ {<<>>}}
    /\ \E f \in DownloadFlags :
          check_existing_archives = f[1] /\ create_dicom_metadata = f[2]
    /\ position = 0
    /\ outcomes = <<>>
    /\ collected_metadata = <<>>
    /\ metadata_file \in InitialFiles
    /\ choice = ""
    /\ selected_studies = <<>>
    /\ all_studies = <<>>
    /\ subjects_dict = <<>>
    /\ subject_dict = <<>>
    /\ user_line = <<>>
    /\ session_map_input = <<>>
    /\ studies = <<>>
    /\ session_map = <<>>
    /\ ParserUnused
    /\ ResolverUnused

\* one turn of the loop: run_dicom_download_command(study, ...)
DownloadStudy ==
    /\ pc = "downloading"
    /\ position < Len(handed)
    /\ \E env \in DownloadEnvs :
          LET study == handed[position + 1]
              result == run_dicom_download_command(
                            study, check_existing_archives, create_dicom_metadata,
                            env, collected_metadata, metadata_file)
          IN  /\ outcomes' = Append(outcomes, [study_uid |-> study.study_uid,
                                               docker    |-> result.docker,
                                               read      |-> result.read,
                                               write     |-> result.write])
              /\ collected_metadata' = result.collected
              /\ metadata_file' = result.file
              /\ pc' = IF result.raised THEN "crashed" ELSE "downloading"
    /\ position' = position + 1
    /\ UNCHANGED <<parserVars, studies, resolverVars, session_map, mainVars,
                   create_dicom_metadata, check_existing_archives>>

\* "All docker operations have been completed."
FinishDownloads ==
    /\ pc = "downloading"
    /\ position = Len(handed)
    /\ pc' = "done"
    /\ UNCHANGED <<parserVars, studies, resolverVars, session_map, mainVars,
                   downloadVars>>

NextDownload == DownloadStudy \/ FinishDownloads

SpecDownload == InitDownload /\ [][NextDownload]_vars

----------------------------------------------------------------------------
(* The download loop, read off its outcomes *)

\* C15: the studies are processed one at a time in the order of the
\* selected list, and a non-zero exit of the download command ends the
\* processing of that study only: the loop goes on with the next study, and
\* the run is completed only when every study has had its turn.
C15_FailureEndsOneStudy ==
    /\ Len(outcomes) = position /\ position <= Len(handed)
    /\ \A i \in 1..position : outcomes[i].study_uid = handed[i].study_uid
    /\ \A i \in 1..position :
          outcomes[i].docker = "failed" =>
             /\ i = position => pc \in {"downloading", "done"}
             /\ outcomes[i].read = "none" /\ outcomes[i].write = "none"
    /\ pc = "done" => position = Len(handed)

\* the run is completed, the download of a study failed and a later study
\* was downloaded
C15_Witness ==
    /\ pc = "done"
    /\ \E i, j \in 1..position :
          i < j /\ outcomes[i].docker = "failed" /\ outcomes[j].docker = "ok"

\* the side-file could not be read, or could not be written, in turn i
SideFileFailed(i) ==
    outcomes[i].read \in {"warned", "raised"} \/ outcomes[i].write \in {"warned", "raised"}

\* C16: a failure to read or to write the side-file is a warning and never
\* an exception that leaves download_dicom: the accumulator has the entry of
\* the study's subject and the loop goes on.
C16_SideFileFailureContained ==
    \A i \in 1..position :
        SideFileFailed(i) =>
           /\ outcomes[i].read # "raised" /\ outcomes[i].write # "raised"
           /\ \E e \in 1..Len(collected_metadata) :
                 collected_metadata[e].key = handed[i].sub_label
           /\ i = position => pc \in {"downloading", "done"}


----------------------------------------------------------------------------
(* The parser, line by line *)

\* the items of the text from which a record is made, in order
Emitted == SelectSeq(Segments(1, 1), EmitsRecord)

\* an item closed by a terminator that carries a value for a dictionary
\* field and no study_uid: the fragment that is dropped
DroppedFragmentWith(seg, f) ==
    /\ IsTerminator(lines[seg[2]])
    /\ ~EmitsRecord(seg)
    /\ Truthy(LastValue(f, seg))

\* C17: after every terminator line the accumulator is all-empty, whether
\* or not the item was appended; so every field of every record holds what
\* its own item says (None when the item has no line for the field), never
\* a value read before an earlier terminator.
C17_ResetOnEveryTerminator ==
    /\ (lineno > 0 /\ IsTerminator(lines[lineno])) =>
          current = EmptyAccumulator(tag_map)
    /\ pc = "parsed" =>
          /\ Len(studies) = Len(Emitted)
          /\ \A r \in 1..Len(studies) :
                /\ DOMAIN studies[r] = DOMAIN EmptyAccumulator(tag_map)
                /\ \A f \in DOMAIN studies[r] :
                      studies[r][f] = LastValue(f, Emitted[r])

\* a dropped fragment with a patient name, then a record whose item has no
\* patient name
C17_Witness ==
    /\ pc = "parsed"
    /\ Len(studies) = 1
    /\ "patient_name" \in DOMAIN studies[1]
    /\ studies[1]["patient_name"] = None
    /\ LET segs == Segments(1, 1) IN
       /\ Len(segs) = 2
       /\ DroppedFragmentWith(segs[1], "patient_name")
       /\ EmitsRecord(segs[2])

\* line k matches the attribute pattern and its pair is no key of the
\* dictionary
UnknownPairAt(k) ==
    /\ AttrMatch(lines[k]).matched
    /\ \A f \in DOMAIN EmptyAccumulator(tag_map) : ~IsAttrFor(k, f)

\* line k matches neither the attribute pattern nor the terminator pattern
MatchesNothingAt(k) == ~AttrMatch(lines[k]).matched /\ ~IsTerminator(lines[k])

\* the loop body for line k changes nothing but the position in the text
LeavesAllUnchanged(k) ==
    (pc = "scan" /\ lineno = k - 1 /\ k <= Len(lines)) =>
        /\ current' = current
        /\ studies' = studies
        /\ lineno' = k
        /\ pc' = "scan"

\* C18 as stated: a line that matches neither pattern, and an attribute
\* line whose pair is not in the tag dictionary, leave the accumulator and
\* the result sequence unchanged and raise no error.
C18_AsStated ==
    [][\A k \in 1..Len(lines) :
          (MatchesNothingAt(k) \/ UnknownPairAt(k)) => LeavesAllUnchanged(k)]_vars

\* C18, amended: a line that matches neither pattern, and an attribute line
\* whose pair is not in the tag dictionary and which does not contain a
\* terminator marker, leave the accumulator and the result sequence
\* unchanged and raise no error.
C18_SkippedLinesChangeNothing ==
    [][\A k \in 1..Len(lines) :
          (MatchesNothingAt(k) \/ (UnknownPairAt(k) /\ ~IsTerminator(lines[k])))
             => LeavesAllUnchanged(k)]_vars

\* a filled accumulator has been carried over a line that matches nothing
\* and then over an attribute line of an unknown pair
C18_Witness ==
    /\ pc = "scan"
    /\ lineno = 3
    /\ MatchesNothingAt(2)
    /\ UnknownPairAt(3) /\ ~IsTerminator(lines[3])
    /\ current # EmptyAccumulator(tag_map)
    /\ current = StoreAttribute(EmptyAccumulator(tag_map), lines[1], tag_map)

----------------------------------------------------------------------------
(* The session label of a mapped trailing text *)

\* entry e of the session map is the one the lookup of the trailing text
\* finds, and its value is not empty
SessionMapHit(e) ==
    /\ trailing # None /\ trailing # <<>>
    /\ session_map[e].key = Strip(Lower(trailing))
    /\ session_map[e].value # <<>>

\* C19: on a session-map hit the returned label is the mapped value itself
\* when that value starts with "ses-", and "ses-" followed by the value
\* otherwise: the label always starts with "ses-", and with "ses-ses-" only
\* when the mapped value does so itself.
C19_PrefixOnce ==
    pc = "labelled" =>
        \A e \in 1..Len(session_map) :
            SessionMapHit(e) =>
                LET v == session_map[e].value IN
                /\ StartsWith(v, SesPrefix) => session_label = v
                /\ ~StartsWith(v, SesPrefix) => session_label = SesPrefix \o v
                /\ StartsWith(session_label, SesPrefix)
                /\ StartsWith(session_label, SesPrefix \o SesPrefix)
                      => StartsWith(v, SesPrefix \o SesPrefix)

\* one map answers a trailing text with a value that has the prefix
\* already, and the label is that value
C19_Witness ==
    /\ pc = "labelled"
    /\ \E e \in 1..Len(session_map) :
          /\ SessionMapHit(e)
          /\ StartsWith(session_map[e].value, SesPrefix)
          /\ Len(session_map[e].value) > Len(SesPrefix)
          /\ session_label = session_map[e].value
    /\ \E e \in 1..Len(session_map) :
          /\ ~StartsWith(session_map[e].value, SesPrefix)
          /\ session_map[e].value # <<>>

\* a trailing text is answered with a value without the prefix, and the
\* label is "ses-" and that value
C19_WitnessPrefixed ==
    /\ pc = "labelled"
    /\ \E e \in 1..Len(session_map) :
          /\ SessionMapHit(e)
          /\ ~StartsWith(session_map[e].value, SesPrefix)
          /\ session_label = SesPrefix \o session_map[e].value

----------------------------------------------------------------------------
(* The order of the listed studies *)

\* the key the studies are to be ordered by: the number the date writes,
\* and 0 for a date that is absent, empty or not made of the digits 0..9
DateKey(d) ==
    IF d # None /\ d # <<>> /\ (\A i \in 1..Len(d) : d[i] \in Digits)
    THEN ToInt(d) ELSE 0

\* the place of study i of the list in ascending order of DateKey, studies
\* of equal key in their order in the list
PlaceByDate(list, i) ==
    1 + Cardinality({j \in 1..Len(list) :
            \/ DateKey(list[j].study_date) < DateKey(list[i].study_date)
            \/ /\ DateKey(list[j].study_date) = DateKey(list[i].study_date)
               /\ j < i})

OrderedByDate(before, after) ==
    /\ Len(after) = Len(before)
    /\ \A i \in 1..Len(before) : after[PlaceByDate(before, i)] = before[i]

\* C20: the query result is put in ascending order of the number its date
\* writes; a date that is empty, absent or not all digits counts as 0 and
\* the study is kept, not rejected; studies of equal key keep their order.
C20_OrderedByDate ==
    [][pc = "queried" => (pc' = "listed" /\ OrderedByDate(studies, studies'))]_vars

\* the same for the results in which str.isdigit and int agree on every date
C20_OrderedWhereIntAccepts ==
    [][(pc = "queried"
        /\ \A i \in 1..Len(studies) : ~date_to_int_raises(studies[i].study_date))
       => (pc' = "listed" /\ OrderedByDate(studies, studies'))]_vars

\* a list that the sort has changed, with an absent date put first and two
\* studies of one date in their first order
C20_Reordered ==
    /\ pc = "listed"
    /\ Len(studies) = 3
    /\ studies[1].study_date = None
    /\ studies[2].study_date = Date1 /\ studies[3].study_date = Date1
    /\ studies[1].study_uid = <<"1", ".", "2">>
    /\ studies[2].study_uid = <<"1", ".", "1">>

----------------------------------------------------------------------------
(* The side-file after an update *)

KeysOf(d) == {d[e].key : e \in 1..Len(d)}

EntriesOf(d) == {d[e] : e \in 1..Len(d)}

HasDigits(label) == \E i \in 1..Len(label) : label[i] \in Digits

\* the first integer found in the label
FirstInteger(label) ==
    LET i == SkipNotIn(label, 1, Digits)
    IN  ToInt(SubSeq(label, i, SkipIn(label, i, Digits) - 1))

\* label a may stand before label b: by the first integer when both have
\* one, and a label without digits after every label with digits
MayPrecede(a, b) ==
    IF HasDigits(a) /\ HasDigits(b) THEN FirstInteger(a) <= FirstInteger(b)
    ELSE HasDigits(a) \/ ~HasDigits(b)

InSubjectOrder(d) ==
    \A a, b \in 1..Len(d) : a < b => MayPrecede(d[a].key, d[b].key)

\* this step is a turn of the loop in which the side-file was read, when
\* there was one, and written, without a warning
UpdatedSideFile ==
    /\ position' = position + 1
    /\ outcomes'[position'].write = "ok"
    /\ outcomes'[position'].read \in {"none", "ok"}

\* the side-file written by the step holds the accumulator, and the
\* accumulator the entries of the file, the entries collected before and
\* the entry of the study's subject
HoldsWholeAccumulator ==
    LET study == handed[position']
        new == metadata_file'.data
    IN  /\ metadata_file'.kind = "object"
        /\ Len(new) = Len(collected_metadata')
        /\ EntriesOf(new) = EntriesOf(collected_metadata')
        /\ Cardinality(KeysOf(new)) = Len(new)
        /\ KeysOf(new) = KeysOf(metadata_file.data) \cup KeysOf(collected_metadata)
                            \cup {study.sub_label}
        /\ Entry(study.sub_label, [age |-> numeric_age(study.patient_age),
                                   sex |-> study.patient_sex]) \in EntriesOf(new)
        /\ \A e \in EntriesOf(metadata_file.data) :
              e.key # study.sub_label => e \in EntriesOf(new)

\* C21: after every successful metadata update the side-file holds the
\* whole accumulator (the entries that were in the file, those collected
\* earlier in the run and the entry of the current subject), its keys in
\* ascending order of the first integer of the label, the labels without
\* digits after all labels with digits.
C21_SideFileWholeAndOrdered ==
    [][UpdatedSideFile =>
          (HoldsWholeAccumulator /\ InSubjectOrder(metadata_file'.data))]_vars

\* the same without the order of the keys
C21_SideFileWhole == [][UpdatedSideFile => HoldsWholeAccumulator]_vars

\* the same for the order of the keys, when every first integer is below
\* the key that subject_number gives to a label without digits
C21_OrderedBelowNoDigitsKey ==
    [][(UpdatedSideFile
        /\ \A k \in KeysOf(metadata_file'.data) :
              HasDigits(k) => FirstInteger(k) < NoDigitsKey)
       => InSubjectOrder(metadata_file'.data)]_vars

\* the second update of a run has written a file of four subjects, one of
\* them without digits
C21_UpdatedTwice ==
    /\ position = 2
    /\ outcomes[1].write = "ok" /\ outcomes[2].write = "ok"
    /\ metadata_file.kind = "object"
    /\ Len(metadata_file.data) = 4
    /\ \E k \in KeysOf(metadata_file.data) : ~HasDigits(k)

----------------------------------------------------------------------------
(* Matched studies of one subject and session *)

\* the place of a matched study in the query result
InputPlace(st) ==
    CHOOSE i \in 1..Len(all_studies) : all_studies[i].study_uid = st.study_uid

SamePair(a, b) == a.sub_label = b.sub_label /\ a.ses_label = b.ses_label

\* a comes after b in ascending order of date, and after b in the query
\* result when the dates are equal
ComesAfter(a, b) ==
    \/ DateKey(a.study_date) > DateKey(b.study_date)
    \/ /\ DateKey(a.study_date) = DateKey(b.study_date)
       /\ InputPlace(a) > InputPlace(b)

MatchedStudies == {studies[i] : i \in 1..Len(studies)}

\* the last of the matched studies of its subject and session
LastOfPair(st) ==
    /\ st \in MatchedStudies
    /\ \A o \in MatchedStudies : (SamePair(o, st) /\ o # st) => ComesAfter(st, o)

\* the studies the index holds, whatever the number of sessions
InIndex(st) ==
    \E e \in 1..Len(subject_dict) :
        \E k \in 1..Len(subject_dict[e].sessions) :
            /\ subject_dict[e].sub = st.sub_label
            /\ subject_dict[e].sessions[k].ses = st.ses_label
            /\ subject_dict[e].sessions[k].study = st

\* C22: of the matched studies of one (subject, session) pair the index
\* keeps exactly one, the last in ascending order of date and, on equal
\* dates, the last of the query result; only the kept studies are handed
\* to the download.
C22_LastOfPairKept ==
    pc \in {"indexed", "done", "nothing"} =>
        /\ \A st \in MatchedStudies : InIndex(st) <=> LastOfPair(st)
        /\ \A e \in 1..Len(subject_dict) :
              \A k \in 1..Len(subject_dict[e].sessions) :
                 /\ InIndex(subject_dict[e].sessions[k].study)
                 /\ \A k2 \in 1..Len(subject_dict[e].sessions) :
                       k2 # k => subject_dict[e].sessions[k2].ses
                                    # subject_dict[e].sessions[k].ses
        /\ \A e, e2 \in 1..Len(subject_dict) :
              e # e2 => subject_dict[e].sub # subject_dict[e2].sub
        /\ \A h \in 1..Len(handed) : LastOfPair(handed[h])

\* two matched studies of one pair, the first of the query result with the
\* later date: it is the one that was handed over
C22_Witness ==
    /\ pc = "done"
    /\ Len(studies) = 2
    /\ SamePair(studies[1], studies[2])
    /\ DateKey(studies[1].study_date) < DateKey(studies[2].study_date)
    /\ InputPlace(studies[2]) = 1
    /\ handed = <<studies[2]>>

\* two matched studies of one pair and one date: the second of the query
\* result was handed over
C22_WitnessEqualDates ==
    /\ pc = "done"
    /\ Len(studies) = 2
    /\ SamePair(studies[1], studies[2])
    /\ studies[1].study_date = studies[2].study_date
    /\ handed = <<studies[2]>>
    /\ InputPlace(studies[2]) = 2

----------------------------------------------------------------------------
(* What a turn of the download loop changes *)

\* the entry of subject k in dict d, as a set: empty without one
EntryOf(d, k) == {e \in EntriesOf(d) : e.key = k}

\* the step gives subject k an entry, or another entry, in dict new
GainsOrChanges(old, new, k) == EntryOf(new, k) # {} /\ EntryOf(new, k) # EntryOf(old, k)

\* the download command has exited with code zero for a study of subject k
DownloadedFor(k) ==
    \E i \in 1..position' :
        outcomes'[i].docker = "ok" /\ handed[i].sub_label = k

\* this step is a turn in which the download failed or the study was skipped
FailedOrSkipped ==
    /\ position' = position + 1
    /\ outcomes'[position'].docker \in {"failed", "skipped"}

AllLabels ==
    KeysOf(collected_metadata') \cup KeysOf(metadata_file'.data)

\* C23 as stated: the accumulator and the side-file gain or change a
\* subject's entry only after the download command exited with code zero
\* for a study of that subject; a failed download and a skipped study leave
\* both unchanged.
C23_AsStated ==
    [][/\ \A k \in AllLabels :
             (\/ GainsOrChanges(collected_metadata, collected_metadata', k)
              \/ GainsOrChanges(metadata_file.data, metadata_file'.data, k))
             => DownloadedFor(k)
       /\ FailedOrSkipped =>
             (collected_metadata' = collected_metadata
              /\ metadata_file' = metadata_file)]_vars

\* C23, amended: the accumulator and the side-file change only in a turn
\* whose download command exited with code zero; an entry the accumulator
\* gains or changes in such a turn is the entry of the study's subject or
\* an entry read from the side-file, and an entry the side-file gains or
\* changes is an entry of the accumulator; a failed download and a skipped
\* study leave both unchanged.
C23_ChangesOnlyAfterExitZero ==
    [][/\ (collected_metadata' # collected_metadata \/ metadata_file' # metadata_file)
             => (position' = position + 1 /\ outcomes'[position'].docker = "ok")
       /\ \A k \in AllLabels :
             /\ GainsOrChanges(collected_metadata, collected_metadata', k)
                   => \/ k = handed[position'].sub_label
                      \/ EntryOf(collected_metadata', k) = EntryOf(metadata_file.data, k)
             /\ GainsOrChanges(metadata_file.data, metadata_file'.data, k)
                   => EntryOf(metadata_file'.data, k) = EntryOf(collected_metadata', k)
       /\ FailedOrSkipped =>
             (collected_metadata' = collected_metadata
              /\ metadata_file' = metadata_file)]_vars

\* the first study was downloaded and recorded, the download of the second
\* study, of another subject, failed: that subject has no entry
C23_Witness ==
    /\ position = 2
    /\ outcomes[1].docker = "ok" /\ outcomes[1].write = "ok"
    /\ outcomes[2].docker = "failed"
    /\ handed[1].sub_label # handed[2].sub_label
    /\ KeysOf(collected_metadata) = {handed[1].sub_label}
    /\ metadata_file = ObjectFile(collected_metadata)

\* the same with the second study skipped for the archives of its directory
C23_WitnessSkipped ==
    /\ position = 2
    /\ outcomes[1].docker = "ok" /\ outcomes[1].write = "ok"
    /\ outcomes[2].docker = "skipped"
    /\ handed[1].sub_label # handed[2].sub_label
    /\ KeysOf(collected_metadata) = {handed[1].sub_label}
    /\ metadata_file = ObjectFile(collected_metadata)

----------------------------------------------------------------------------
(* Studies handed to the download more than once *)

\* the places of the hand-over at which the study of place i is handed again
HandedAgain(i) ==
    {j \in 1..Len(handed) : j # i /\ handed[j].study_uid = handed[i].study_uid}

\* the words of the line the user typed, and whether one occurs twice
RepeatsAToken(line) ==
    LET tokens == Split(line)
    IN  \E a, b \in 1..Len(tokens) : a # b /\ tokens[a] = tokens[b]

\* C24: no study is handed to the download step more than once in a run,
\* whatever the user typed, repeated tokens included.
C24_HandedOnce == \A i \in 1..Len(handed) : HandedAgain(i) = {}

\* the same for the lines in which no token is repeated
C24_HandedOnceWithoutRepeats ==
    (~RepeatsAToken(user_line)
     /\ \A subj \in DOMAIN session_map_input :
           ~RepeatsAToken(session_map_input[subj]))
    => C24_HandedOnce

\* a line with a repeated token was answered with a hand-over
C24_RepeatedTokenHanded ==
    /\ pc \in {"done", "assigned"}
    /\ RepeatsAToken(user_line)
    /\ (handed # <<>> \/ selected_studies # <<>>)

----------------------------------------------------------------------------
(* A line that is an attribute line and a terminator *)

\* line k gives field f a value and closes an item
StoresAndCloses(k, f) == IsAttrFor(k, f) /\ IsTerminator(lines[k])

\* the number of records made of the items closed at or before line k
RecordsClosedBy(k) ==
    Cardinality({i \in Terminators : i <= k /\ EmitsRecord(ItemClosedBy(i))})

\* C25: when a line matches the attribute pattern for a pair of the
\* dictionary and contains a terminator marker, its value is stored before
\* the item is closed: the record of the item that the line closes has the
\* value, the accumulator is empty after the line, and the next record has
\* only what the lines after it say.
C25_StoredThenClosed ==
    \A k \in 1..lineno :
        \A f \in DOMAIN EmptyAccumulator(tag_map) :
            StoresAndCloses(k, f) =>
                LET seg == ItemClosedBy(k)
                    n == RecordsClosedBy(k)
                IN  /\ Len(studies) >= n
                    /\ LastValue(f, seg) = AttrMatch(lines[k]).value
                    /\ EmitsRecord(seg) =>
                          /\ n >= 1
                          /\ studies[n][f] = AttrMatch(lines[k]).value
                          /\ \A g \in DOMAIN studies[n] :
                                studies[n][g] = LastValue(g, seg)
                    /\ k = lineno => current = EmptyAccumulator(tag_map)
                    /\ Len(studies) > n =>
                          /\ Len(Emitted) > n
                          /\ Emitted[n + 1][1] > k
                          /\ \A g \in DOMAIN studies[n + 1] :
                                studies[n + 1][g] = LastValue(g, Emitted[n + 1])

\* the first line stores a study_uid and closes the item; its record has
\* that value and no patient name, and the name of the next line is in the
\* record after it
C25_Witness ==
    /\ pc = "parsed"
    /\ Len(lines) = 3
    /\ StoresAndCloses(1, "study_uid")
    /\ Len(studies) = 2
    /\ studies[1]["study_uid"] = AttrMatch(lines[1]).value
    /\ "patient_name" \in DOMAIN studies[1]
    /\ studies[1]["patient_name"] = None
    /\ studies[2]["patient_name"] # None
    /\ studies[2]["study_uid"] # studies[1]["study_uid"]

====
